---- MODULE Spec2Model ----
(***************************************************************************)
(* A model of the 2D light-transport engine: the segment-tree ray tracer,  *)
(* the bounding-volume hierarchy and the intersection and optics math,     *)
(* together with the scene store and the renderer that drives them.        *)
(*                                                                         *)
(* Numbers.  Positions, sizes and distances are whole pixels.  Unit        *)
(* vectors (ray directions, normals) and the cosine and sine of a rotation *)
(* are fixed-point numbers scaled by Unit.  Intensities are scaled by      *)
(* IUnit, reflectivities by RDen and refractive indices by NDen.  The      *)
(* scenes explored are laid out so that the quotients the tracer forms   *)
(* are exact wherever a claim depends on it; elsewhere a quotient is        *)
(* rounded to the pixel grid.                                              *)
(***************************************************************************)
EXTENDS Integers, Sequences, FiniteSets, TLC

VARIABLES
    heap,           \* every shape object ever created: id -> its fields
    objects,        \* sceneStore.objects      (ids, in insertion order)
    targets,        \* sceneStore.targets      (ids)
    focalPoints,    \* sceneStore.focalPoints  (ids)
    selectedObjectId, \* sceneStore.selectedObjectId
    maxBounces,     \* simulationStore.maxBounces
    minIntensity,   \* simulationStore.minIntensity
    showRays,       \* simulationStore.showRays
    settings,       \* RayTracer.settings
    bvh,            \* RayTracer.bvh (a tree, or None)
    bvhDirty,       \* RayTracer.bvhDirty
    renderPending,  \* a watcher of RayRenderer has a render() call queued
    pc,             \* "idle", or "trace" while RayRenderer.render runs traceAll
    primaries,      \* primary rays traceAll has still to trace
    rayQueue,       \* traceRay's work queue
    segs,           \* the segments created by the running traceAll
    iterations,     \* iterations of traceRay's loop in the running traceAll
    edits,          \* number of store edits made so far
    probe,          \* last application of a pure function under test
    rayColor,       \* simulationStore.rayColor
    history         \* the traceAll calls since the scene last changed

vars == <<heap, objects, targets, focalPoints, selectedObjectId, maxBounces,
          minIntensity, showRays, settings, bvh, bvhDirty, renderPending, pc,
          primaries, rayQueue, segs, iterations, edits, probe, rayColor,
          history>>

-----------------------------------------------------------------------------
(* Fixed-point scales *)

Unit == 10 * 100            \* 1.0 for directions, normals, cos and sin
IUnit == 256 * 100          \* 1.0 for intensities
RDen == 1 + 1               \* reflectivity is a number of halves
NDen == 2 + 2               \* a refractive index is a number of quarters
EpsDen == 100 * 100         \* GeometryMath.EPSILON = 1 / EpsDen

Null == "null"               \* null, where an id or a name is expected
None == [none |-> TRUE]      \* null, where a record is expected
NoDistance == 0 - 1          \* null, where a distance is expected
Infinity == 2147483647

Abs(a) == IF a < 0 THEN -a ELSE a
Sign(a) == IF a < 0 THEN -1 ELSE IF a > 0 THEN 1 ELSE 0
CeilDiv(a, b) == -((-a) \div b)

SetMin(S) == CHOOSE m \in S : \A o \in S : m <= o
SetMax(S) == CHOOSE m \in S : \A o \in S : m >= o

RECURSIVE ISqrtIn(_, _, _)
ISqrtIn(v, lo, hi) ==
    IF lo >= hi THEN lo
    ELSE LET mid == (lo + hi + 1) \div 2
         IN  IF mid * mid <= v THEN ISqrtIn(v, mid, hi) ELSE ISqrtIn(v, lo, mid - 1)

\* Math.sqrt, rounded down to a whole number
ISqrt(v) == ISqrtIn(v, 0, 46340)

Vec(a, b) == [x |-> a, y |-> b]

\* cos(k * pi / 16) for k = 0 .. 8, scaled by Unit
CosQuarter == <<1000, 981, 924, 831, 707, 556, 383, 195, 0>>

\* Math.cos(k * 2 * pi / 32), k in 0 .. 31
CosStep(k) ==
    IF k <= 8 THEN CosQuarter[k + 1]
    ELSE IF k <= 16 THEN -CosQuarter[16 - k + 1]
    ELSE IF k <= 24 THEN -CosQuarter[k - 16 + 1]
    ELSE CosQuarter[32 - k + 1]

\* Math.sin(k * 2 * pi / 32)
SinStep(k) == CosStep((k + 24) % 32)

\* A rotation is held as its cosine and sine.
Rot0 == [cos |-> Unit, sin |-> 0]
Rot90 == [cos |-> 0, sin |-> Unit]
RotTenth == [cos |-> 995, sin |-> 100]   \* 0.1 rad
Rot345 == [cos |-> 600, sin |-> 800]     \* atan2(4, 3)

\* (vx, vy) rotated by rot; vx, vy and the result have the same scale
Rotate(vx, vy, rot) ==
    Vec((vx * rot.cos - vy * rot.sin) \div Unit,
        (vx * rot.sin + vy * rot.cos) \div Unit)

\* (vx, vy) rotated by -rot
RotateBack(vx, vy, rot) ==
    Vec((vx * rot.cos + vy * rot.sin) \div Unit,
        (vy * rot.cos - vx * rot.sin) \div Unit)

-----------------------------------------------------------------------------
(* Shapes: getVertices, getBoundingBox *)

\* Rectangle.getVertices, in pixels scaled by Unit
RectangleVertices(s) ==
    LET hw == (s.width * Unit) \div 2
        hh == (s.height * Unit) \div 2
        local == << Vec(-hw, -hh), Vec(hw, -hh), Vec(hw, hh), Vec(-hw, hh) >>
    IN  [i \in 1..4 |->
            LET r == Rotate(local[i].x, local[i].y, s.rotation)
            IN  Vec(s.position.x * Unit + r.x, s.position.y * Unit + r.y)]

\* Target.getVertices, in pixels scaled by Unit
TargetVertices(s) ==
    LET hs == (s.size * Unit) \div 2
        local == << Vec(0, -hs), Vec(hs, 0), Vec(0, hs), Vec(-hs, 0) >>
    IN  [i \in 1..4 |->
            LET r == Rotate(local[i].x, local[i].y, s.rotation)
            IN  Vec(s.position.x * Unit + r.x, s.position.y * Unit + r.y)]

\* Ellipse.getVertices(32), in pixels scaled by Unit
EllipseVertices(s) ==
    [i \in 1..32 |->
        LET localX == s.rx * CosStep(i - 1)
            localY == s.ry * SinStep(i - 1)
            r == Rotate(localX, localY, s.rotation)
        IN  Vec(s.position.x * Unit + r.x, s.position.y * Unit + r.y)]

getVerticesScaled(s) ==
    IF s.type = "Rectangle" THEN RectangleVertices(s)
    ELSE IF s.type = "Target" THEN TargetVertices(s)
    ELSE EllipseVertices(s)

\* getVertices in whole pixels
getVertices(s) ==
    LET vs == getVerticesScaled(s)
    IN  [i \in 1..Len(vs) |-> Vec(vs[i].x \div Unit, vs[i].y \div Unit)]

\* The box of a vertex list: the whole pixels x with min <= x <= max
BoxOfVertices(vs) ==
    LET xs == {vs[i].x : i \in 1..Len(vs)}
        ys == {vs[i].y : i \in 1..Len(vs)}
    IN  [minX |-> CeilDiv(SetMin(xs), Unit), minY |-> CeilDiv(SetMin(ys), Unit),
         maxX |-> SetMax(xs) \div Unit, maxY |-> SetMax(ys) \div Unit]

getBoundingBox(s) ==
    IF s.type = "Rectangle" THEN
        IF s.rotation = Rot0 THEN
            [minX |-> s.position.x - s.width \div 2,
             minY |-> s.position.y - s.height \div 2,
             maxX |-> s.position.x + s.width \div 2,
             maxY |-> s.position.y + s.height \div 2]
        ELSE BoxOfVertices(RectangleVertices(s))
    ELSE IF s.type = "Target" THEN BoxOfVertices(TargetVertices(s))
    ELSE
        IF s.rotation = Rot0 THEN
            [minX |-> s.position.x - s.rx, minY |-> s.position.y - s.ry,
             maxX |-> s.position.x + s.rx, maxY |-> s.position.y + s.ry]
        ELSE BoxOfVertices(EllipseVertices(s))

-----------------------------------------------------------------------------
(* Ray and Intersection *)

\* Ray.normalize
normalize(v) ==
    LET length == ISqrt(v.x * v.x + v.y * v.y)
    IN  IF length = 0 THEN Vec(0, 0)
        ELSE Vec((v.x * Unit) \div length, (v.y * Unit) \div length)

\* new Ray(origin, direction, intensity, generation)
Ray(origin, direction, intensity, generation) ==
    [origin |-> Vec(origin.x, origin.y), direction |-> normalize(direction),
     intensity |-> intensity, generation |-> generation]

\* Ray.pointAt
pointAt(ray, t) ==
    Vec(ray.origin.x + (ray.direction.x * t) \div Unit,
        ray.origin.y + (ray.direction.y * t) \div Unit)

\* Variant of spawn: the share is added to the parent's intensity
spawnBrighter(ray, newOrigin, newDirection, intensityMultiplier) ==
    Ray(newOrigin, newDirection,
        ray.intensity + (ray.intensity * intensityMultiplier) \div RDen,
        ray.generation + 1)

\* Variant of spawn: the generation is not advanced
spawnSameGeneration(ray, newOrigin, newDirection, intensityMultiplier) ==
    Ray(newOrigin, newDirection,
        (ray.intensity * intensityMultiplier) \div RDen,
        ray.generation)

\* Ray.spawn; the multiplier is a number of RDen-ths
spawn(ray, newOrigin, newDirection, intensityMultiplier) ==
    Ray(newOrigin, newDirection,
        (ray.intensity * intensityMultiplier) \div RDen,
        ray.generation + 1)

Intersection(hit, distance, point, normal, object) ==
    [hit |-> hit, distance |-> distance, point |-> point, normal |-> normal,
     object |-> object]

\* Intersection.noHit
noHit == Intersection(FALSE, Infinity, None, None, Null)

\* The reduction of closest with <= in place of <: the last of equals wins
RECURSIVE closestFromLastOnTies(_, _, _)
closestFromLastOnTies(intersections, i, acc) ==
    IF i > Len(intersections) THEN acc
    ELSE LET current == intersections[i]
         IN  closestFromLastOnTies(intersections, i + 1,
                IF ~current.hit THEN acc
                ELSE IF ~acc.hit THEN current
                ELSE IF current.distance <= acc.distance THEN current ELSE acc)

RECURSIVE closestFrom(_, _, _)
closestFrom(intersections, i, acc) ==
    IF i > Len(intersections) THEN acc
    ELSE LET current == intersections[i]
         IN  closestFrom(intersections, i + 1,
                IF ~current.hit THEN acc
                ELSE IF ~acc.hit THEN current
                ELSE IF current.distance < acc.distance THEN current ELSE acc)

\* Intersection.closest
closest(intersections) == closestFrom(intersections, 1, noHit)

-----------------------------------------------------------------------------
(* GeometryMath *)

\* GeometryMath.rayLineSegmentIntersection: None, or [t, point, normal].
\* det and u carry the scale of rayDir; t is tN / dN pixels.
rayLineSegmentIntersection(rayOrigin, rayDir, p1, p2) ==
    LET dx == p2.x - p1.x
        dy == p2.y - p1.y
        toSegX == p1.x - rayOrigin.x
        toSegY == p1.y - rayOrigin.y
        det == rayDir.x * dy - rayDir.y * dx
        dN == Abs(det)
        tN == Sign(det) * (toSegX * dy - toSegY * dx) * Unit
        uN == Sign(det) * (toSegX * rayDir.y - toSegY * rayDir.x)
    IN  IF dN < CeilDiv(Unit, EpsDen) THEN None
        ELSE IF tN >= CeilDiv(dN, EpsDen) /\ uN >= 0 /\ uN <= dN THEN
            LET t == tN \div dN
                edgeLength10 == ISqrt((dx * dx + dy * dy) * 100)
                nx == (-dy * Unit * 10) \div edgeLength10
                ny == (dx * Unit * 10) \div edgeLength10
                dot == rayDir.x * nx + rayDir.y * ny
            IN  [t |-> t,
                 point |-> Vec(rayOrigin.x + (t * rayDir.x) \div Unit,
                               rayOrigin.y + (t * rayDir.y) \div Unit),
                 normal |-> IF dot > 0 THEN Vec(-nx, -ny) ELSE Vec(nx, ny)]
        ELSE None

\* if (result && result.t < closestT): the closer of an edge hit and the
\* closest so far
closerEdge(result, best) ==
    IF result = None THEN best
    ELSE IF best = None THEN result
    ELSE IF result.t < best.t THEN result ELSE best

RECURSIVE polygonFrom(_, _, _, _, _)
polygonFrom(rayOrigin, rayDir, vertices, i, best) ==
    IF i > Len(vertices) THEN best
    ELSE polygonFrom(rayOrigin, rayDir, vertices, i + 1,
             closerEdge(rayLineSegmentIntersection(
                            rayOrigin, rayDir, vertices[i],
                            vertices[(i % Len(vertices)) + 1]),
                        best))

\* new Intersection(true, closestT, ...) or Intersection.noHit()
polygonIntersection(closestIntersection, object) ==
    IF closestIntersection # None THEN
        Intersection(TRUE, closestIntersection.t, closestIntersection.point,
                     closestIntersection.normal, object)
    ELSE noHit

\* GeometryMath.rayPolygonIntersection
rayPolygonIntersection(rayOrigin, rayDir, vertices, object) ==
    polygonIntersection(polygonFrom(rayOrigin, rayDir, vertices, 1, None), object)

\* rayEllipseIntersection, the end: the hit point and the normal are taken
\* back to world space
ellipseWorldHit(rayOrigin, object, worldHit, worldNormal) ==
    Intersection(TRUE,
                 ISqrt((worldHit.x - rayOrigin.x) * (worldHit.x - rayOrigin.x)
                       + (worldHit.y - rayOrigin.y) * (worldHit.y - rayOrigin.y)),
                 worldHit, worldNormal, object)

\* The normal of the ellipse at localHit, flipped when the ray leaves
ellipseLocalNormal(localHit, rx, ry, useSecondIntersection) ==
    LET n == normalize(Vec((localHit.x * ry) \div rx, (localHit.y * rx) \div ry))
    IN  IF useSecondIntersection THEN Vec(-n.x, -n.y) ELSE n

ellipseLocalHit(rayOrigin, center, rx, ry, rotation, object, localHit, localNormal) ==
    LET rhit == Rotate(localHit.x, localHit.y, rotation)
    IN  ellipseWorldHit(rayOrigin, object,
                        Vec(center.x + rhit.x, center.y + rhit.y),
                        Rotate(localNormal.x, localNormal.y, rotation))

\* rayEllipseIntersection, the choice of the root: tN1 is the first root
\* times dd, tN2 the second
ellipseRoot(rayOrigin, center, rx, ry, rotation, object, localOrigin, localDir, dd, tN1, tN2) ==
    LET eps == CeilDiv(dd, EpsDen)
        useSecondIntersection == tN1 < eps
        tN == IF useSecondIntersection THEN tN2 ELSE tN1
        t == tN \div dd
        localHit == Vec(localOrigin.x + (t * localDir.x) \div Unit,
                        localOrigin.y + (t * localDir.y) \div Unit)
    IN  IF tN < eps THEN noHit
        ELSE ellipseLocalHit(rayOrigin, center, rx, ry, rotation, object, localHit,
                 ellipseLocalNormal(localHit, rx, ry, useSecondIntersection))

\* rayEllipseIntersection, the quadratic in local space
ellipseQuadratic(rayOrigin, center, rx, ry, rotation, object, localOrigin, localDir) ==
    LET dd == (localDir.x * localDir.x + localDir.y * localDir.y) \div Unit
        od == (localOrigin.x * localDir.x + localOrigin.y * localDir.y) \div Unit
        oo == localOrigin.x * localOrigin.x + localOrigin.y * localOrigin.y
        discriminant == od * od - (dd * (oo - rx * ry)) \div Unit
    IN  IF discriminant < 0 \/ dd = 0 THEN noHit
        ELSE ellipseRoot(rayOrigin, center, rx, ry, rotation, object,
                         localOrigin, localDir, dd,
                         (-od - ISqrt(discriminant)) * Unit,
                         (-od + ISqrt(discriminant)) * Unit)

\* GeometryMath.rayEllipseIntersection for rx = ry (a circle), where the
\* division by the radii cancels: with o the local origin, d the local
\* direction, the roots are (-(o.d) -+ sqrt((o.d)^2 - |d|^2 (|o|^2 - r^2))) / |d|^2.
rayEllipseIntersection(rayOrigin, rayDir, center, rx, ry, rotation, object) ==
    ellipseQuadratic(rayOrigin, center, rx, ry, rotation, object,
                     RotateBack(rayOrigin.x - center.x, rayOrigin.y - center.y,
                                rotation),
                     RotateBack(rayDir.x, rayDir.y, rotation))

\* GeometryMath.rayObjectIntersection; o is the shape's record
rayObjectIntersection(ray, o) ==
    IF o.type = "FocalPoint" THEN noHit
    ELSE IF o.type \in {"Circle", "Ellipse"} THEN
        rayEllipseIntersection(ray.origin, ray.direction, o.position, o.rx,
                               IF o.type = "Circle" THEN o.rx ELSE o.ry,
                               o.rotation, o.id)
    ELSE rayPolygonIntersection(ray.origin, ray.direction, getVertices(o), o.id)

-----------------------------------------------------------------------------
(* BVHNode *)

\* A slab parameter t is a fraction n / d with d > 0.
Frac(n, d) == IF d < 0 THEN [n |-> -n, d |-> -d] ELSE [n |-> n, d |-> d]
FracLE(a, b) == a.n * b.d <= b.n * a.d
FracMin(a, b) == IF FracLE(a, b) THEN a ELSE b
FracMax(a, b) == IF FracLE(a, b) THEN b ELSE a

\* BVHNode.intersectsAABB, for a node's boundingBox
intersectsAABB(boundingBox, ray) ==
    LET minX == boundingBox.minX
        minY == boundingBox.minY
        maxX == boundingBox.maxX
        maxY == boundingBox.maxY
        dx == ray.direction.x
        dy == ray.direction.y
        tx1 == Frac((minX - ray.origin.x) * Unit, dx)
        tx2 == Frac((maxX - ray.origin.x) * Unit, dx)
        ty1 == Frac((minY - ray.origin.y) * Unit, dy)
        ty2 == Frac((maxY - ray.origin.y) * Unit, dy)
    IN  IF dx = 0 /\ (ray.origin.x < minX \/ ray.origin.x > maxX) THEN FALSE
        ELSE IF dy = 0 /\ (ray.origin.y < minY \/ ray.origin.y > maxY) THEN FALSE
        ELSE IF dx = 0 /\ dy = 0 THEN TRUE
        ELSE IF dx = 0 THEN
            FracLE(FracMin(ty1, ty2), FracMax(ty1, ty2))
            /\ FracMax(ty1, ty2).n >= 0
        ELSE IF dy = 0 THEN
            FracLE(FracMin(tx1, tx2), FracMax(tx1, tx2))
            /\ FracMax(tx1, tx2).n >= 0
        ELSE
            LET tmin == FracMax(FracMin(tx1, tx2), FracMin(ty1, ty2))
                tmax == FracMin(FracMax(tx1, tx2), FracMax(ty1, ty2))
            IN  FracLE(tmin, tmax) /\ tmax.n >= 0

\* Variant of computeBoundingBox: the box of the first of the boxes
computeBoundingBoxOfFirst(boundingBoxes) ==
    [minX |-> boundingBoxes[1].minX, minY |-> boundingBoxes[1].minY,
     maxX |-> boundingBoxes[1].maxX, maxY |-> boundingBoxes[1].maxY]

\* BVHNode.computeBoundingBox, of a non-empty sequence of boxes
computeBoundingBox(boundingBoxes) ==
    LET I == 1..Len(boundingBoxes)
    IN  [minX |-> SetMin({boundingBoxes[i].minX : i \in I}),
         minY |-> SetMin({boundingBoxes[i].minY : i \in I}),
         maxX |-> SetMax({boundingBoxes[i].maxX : i \in I}),
         maxY |-> SetMax({boundingBoxes[i].maxY : i \in I})]

\* BVHNode.computeSurfaceArea
computeSurfaceArea(boundingBox) ==
    LET width == boundingBox.maxX - boundingBox.minX
        height == boundingBox.maxY - boundingBox.minY
    IN  width * height

-----------------------------------------------------------------------------
(* BVH.  A tree holds the ids of the shapes it was built from (references  *)
(* to the live objects) and the boxes computed when it was built.          *)

\* Array.prototype.sort by centroid (stable): insert e after every element
\* whose key is not greater
RECURSIVE InsertSorted(_, _)
InsertSorted(sorted, e) ==
    IF sorted = <<>> THEN <<e>>
    ELSE IF sorted[Len(sorted)].centroid2 <= e.centroid2 THEN Append(sorted, e)
    ELSE Append(InsertSorted(SubSeq(sorted, 1, Len(sorted) - 1), e),
                sorted[Len(sorted)])

RECURSIVE SortByCentroid(_, _)
SortByCentroid(items, n) ==
    IF n = 0 THEN <<>> ELSE InsertSorted(SortByCentroid(items, n - 1), items[n])

\* The split candidates of BVH.findBestSplit in the order the loops visit
\* them: axis x then y, i = 1 .. numSplits.  centroid2 is twice the centroid.
SplitCandidates(objs, boundingBoxes) ==
    LET n == Len(objs)
        numSplits == IF n - 1 < 10 THEN n - 1 ELSE 10
        sortedOn(axis) ==
            SortByCentroid(
                [i \in 1..n |->
                    [object |-> objs[i], boundingBox |-> boundingBoxes[i],
                     centroid2 |-> IF axis = "x"
                                   THEN boundingBoxes[i].minX + boundingBoxes[i].maxX
                                   ELSE boundingBoxes[i].minY + boundingBoxes[i].maxY]],
                n)
        candidate(axis, i) ==
            LET sorted == sortedOn(axis)
                splitIndex == (n * i) \div (numSplits + 1)
                left == SubSeq(sorted, 1, splitIndex)
                right == SubSeq(sorted, splitIndex + 1, n)
            IN  [leftObjects |-> [k \in 1..Len(left) |-> left[k].object],
                 rightObjects |-> [k \in 1..Len(right) |-> right[k].object],
                 leftBBs |-> [k \in 1..Len(left) |-> left[k].boundingBox],
                 rightBBs |-> [k \in 1..Len(right) |-> right[k].boundingBox],
                 axis |-> axis]
    IN  [k \in 1..(2 * numSplits) |->
            IF k <= numSplits THEN candidate("x", k)
            ELSE candidate("y", k - numSplits)]

\* The SAH cost of a candidate with two non-empty sides
SplitCost(c) ==
    computeSurfaceArea(computeBoundingBox(c.leftBBs)) * Len(c.leftObjects)
    + computeSurfaceArea(computeBoundingBox(c.rightBBs)) * Len(c.rightObjects)

\* Variant of bestSplitFrom: the first candidate is kept whatever it costs
RECURSIVE bestSplitFromFirst(_, _, _)
bestSplitFromFirst(cands, k, best) ==
    IF k > Len(cands) THEN best
    ELSE LET c == cands[k]
         IN  IF Len(c.leftObjects) = 0 \/ Len(c.rightObjects) = 0
             THEN bestSplitFromFirst(cands, k + 1, best)
             ELSE IF best = None
             THEN bestSplitFromFirst(cands, k + 1,
                      [leftObjects |-> c.leftObjects,
                       rightObjects |-> c.rightObjects,
                       axis |-> c.axis, cost |-> SplitCost(c)])
             ELSE bestSplitFromFirst(cands, k + 1, best)

RECURSIVE bestSplitFrom(_, _, _)
bestSplitFrom(cands, k, best) ==
    IF k > Len(cands) THEN best
    ELSE LET c == cands[k]
         IN  IF Len(c.leftObjects) = 0 \/ Len(c.rightObjects) = 0
             THEN bestSplitFrom(cands, k + 1, best)
             ELSE IF best = None \/ SplitCost(c) < best.cost
             THEN bestSplitFrom(cands, k + 1,
                      [leftObjects |-> c.leftObjects,
                       rightObjects |-> c.rightObjects,
                       axis |-> c.axis, cost |-> SplitCost(c)])
             ELSE bestSplitFrom(cands, k + 1, best)

\* BVH.findBestSplit: None, or the first candidate of least cost
findBestSplit(objs, boundingBoxes) ==
    bestSplitFrom(SplitCandidates(objs, boundingBoxes), 1, None)

\* Variant of build: the node is always made a leaf
buildOneLeaf(h, objs, maxObjectsPerLeaf) ==
    [boundingBox |-> computeBoundingBox(
                         [i \in 1..Len(objs) |-> getBoundingBox(h[objs[i]])]),
     isLeaf |-> TRUE, objects |-> objs, left |-> None, right |-> None]

\* BVH.build over the ids objs of shapes held in h
RECURSIVE build(_, _, _)
build(h, objs, maxObjectsPerLeaf) ==
    LET boundingBoxes == [i \in 1..Len(objs) |-> getBoundingBox(h[objs[i]])]
        box == computeBoundingBox(boundingBoxes)
        leaf == [boundingBox |-> box, isLeaf |-> TRUE, objects |-> objs,
                 left |-> None, right |-> None]
    IN  IF Len(objs) <= maxObjectsPerLeaf THEN leaf
        ELSE LET split == findBestSplit(objs, boundingBoxes)
             IN  IF split = None THEN leaf
                 ELSE [boundingBox |-> box, isLeaf |-> FALSE, objects |-> <<>>,
                       left |-> build(h, split.leftObjects, maxObjectsPerLeaf),
                       right |-> build(h, split.rightObjects, maxObjectsPerLeaf)]

\* new BVH(objects, maxObjectsPerLeaf)
BVH(h, objs, maxObjectsPerLeaf) ==
    [root |-> IF Len(objs) > 0 THEN build(h, objs, maxObjectsPerLeaf) ELSE None]

\* BVH.computeStats(node, depth, stats): the statistics after the subtree of
\* node is counted; computeStatsRight is the call on node.right
RECURSIVE computeStats(_, _, _)
RECURSIVE computeStatsRight(_, _, _)
computeStats(node, depth, stats) ==
    IF node.isLeaf
    THEN [nodes |-> stats.nodes + 1,
          depth |-> IF depth > stats.depth THEN depth ELSE stats.depth,
          leaves |-> stats.leaves + 1,
          objects |-> stats.objects + Len(node.objects)]
    ELSE computeStatsRight(node, depth,
             IF node.left # None
             THEN computeStats(node.left, depth + 1,
                      [stats EXCEPT !.nodes = @ + 1,
                                    !.depth = IF depth > @ THEN depth ELSE @])
             ELSE [stats EXCEPT !.nodes = @ + 1,
                                !.depth = IF depth > @ THEN depth ELSE @])

computeStatsRight(node, depth, stats) ==
    IF node.right # None THEN computeStats(node.right, depth + 1, stats)
    ELSE stats

\* BVH.getStats()
getStats(tree) ==
    IF tree.root = None THEN [depth |-> 0, nodes |-> 0, leaves |-> 0, objects |-> 0]
    ELSE computeStats(tree.root, 0,
                      [depth |-> 0, nodes |-> 0, leaves |-> 0, objects |-> 0])

\* if (intersection.hit) intersections.push(intersection)
pushIfHit(intersections, intersection) ==
    IF intersection.hit THEN Append(intersections, intersection)
    ELSE intersections

\* The hits of a ray on the shapes ids from position i on, after those in
\* intersections, skipping the current medium
RECURSIVE HitsFrom(_, _, _, _, _, _)
HitsFrom(h, ids, ray, currentMedium, i, intersections) ==
    IF i > Len(ids) THEN intersections
    ELSE HitsFrom(h, ids, ray, currentMedium, i + 1,
             IF currentMedium # Null /\ ids[i] = currentMedium
             THEN intersections
             ELSE pushIfHit(intersections,
                            rayObjectIntersection(ray, h[ids[i]])))

\* The hits of a ray on the shapes ids, skipping the current medium
HitsOn(h, ids, ray, currentMedium) ==
    HitsFrom(h, ids, ray, currentMedium, 1, <<>>)

\* BVH.traverseNode
RECURSIVE traverseNode(_, _, _, _)
traverseNode(h, node, ray, currentMedium) ==
    IF ~intersectsAABB(node.boundingBox, ray) THEN noHit
    ELSE IF node.isLeaf THEN closest(HitsOn(h, node.objects, ray, currentMedium))
    ELSE
        LET leftIntersection ==
                IF node.left # None THEN traverseNode(h, node.left, ray, currentMedium)
                ELSE noHit
            rightIntersection ==
                IF node.right # None THEN traverseNode(h, node.right, ray, currentMedium)
                ELSE noHit
        IN  IF ~leftIntersection.hit THEN rightIntersection
            ELSE IF ~rightIntersection.hit THEN leftIntersection
            ELSE IF leftIntersection.distance < rightIntersection.distance
                 THEN leftIntersection ELSE rightIntersection

\* BVH.traverse
traverse(tree, h, ray, currentMedium) ==
    IF tree.root = None THEN noHit
    ELSE traverseNode(h, tree.root, ray, currentMedium)

\* RayTracer.findClosestIntersectionBruteForce
findClosestIntersectionBruteForce(h, objs, tgts, ray, currentMedium) ==
    closest(HitsOn(h, objs \o tgts, ray, currentMedium))

-----------------------------------------------------------------------------
(* LightCalculator *)

\* The incident vector with its normal part removed, not turned back
reflectProjected(incident, normal) ==
    LET dot == (incident.x * normal.x + incident.y * normal.y) \div Unit
    IN  Vec(incident.x - (dot * normal.x) \div Unit,
            incident.y - (dot * normal.y) \div Unit)

\* LightCalculator.reflect: R = I - 2 (I.N) N
reflect(incident, normal) ==
    LET dot == (incident.x * normal.x + incident.y * normal.y) \div Unit
    IN  Vec(incident.x - (2 * dot * normal.x) \div Unit,
            incident.y - (2 * dot * normal.y) \div Unit)

\* k of refract with the two indices taken in the wrong order
RefractKSwapped(incident, normal, n1, n2) ==
    LET dot == -((incident.x * normal.x + incident.y * normal.y) \div Unit)
    IN  n1 * n1 * Unit * Unit - n2 * n2 * (Unit * Unit - dot * dot)

\* k of LightCalculator.refract, times (n2 * Unit)^2: k < 0 iff RefractK < 0
RefractK(incident, normal, n1, n2) ==
    LET dot == -((incident.x * normal.x + incident.y * normal.y) \div Unit)
    IN  n2 * n2 * Unit * Unit - n1 * n1 * (Unit * Unit - dot * dot)

\* LightCalculator.refract: None on total internal reflection; with
\* eta = n1 / n2 the direction is eta I + (eta dot - sqrt(k)) N
refract(incident, normal, n1, n2) ==
    LET dot == -((incident.x * normal.x + incident.y * normal.y) \div Unit)
        k == RefractK(incident, normal, n1, n2)
    IN  IF k < 0 THEN None
        ELSE LET sqrtK == ISqrt(k)
             IN  Vec((n1 * incident.x + ((n1 * dot - sqrtK) * normal.x) \div Unit) \div n2,
                     (n1 * incident.y + ((n1 * dot - sqrtK) * normal.y) \div Unit) \div n2)

-----------------------------------------------------------------------------
(* containsPoint *)

\* Rectangle.containsPoint
RectangleContainsPoint(s, x, y) ==
    LET dx == x - s.position.x
        dy == y - s.position.y
        localX == dx * s.rotation.cos + dy * s.rotation.sin
        localY == dy * s.rotation.cos - dx * s.rotation.sin
    IN  2 * Abs(localX) <= s.width * Unit /\ 2 * Abs(localY) <= s.height * Unit

\* Ellipse.containsPoint, as written:
\* (localX * localY) / rx^2 + (localY * localY) / ry^2 <= 1
EllipseContainsPoint(s, x, y) ==
    LET local == RotateBack(x - s.position.x, y - s.position.y, s.rotation)
    IN  local.x * local.y * s.ry * s.ry + local.y * local.y * s.rx * s.rx
            <= s.rx * s.rx * s.ry * s.ry

containsPoint(s, x, y) ==
    IF s.type = "Rectangle" THEN RectangleContainsPoint(s, x, y)
    ELSE EllipseContainsPoint(s, x, y)

-----------------------------------------------------------------------------
(* FocalPoint *)

\* FocalPoint.getRayDirections: ray i leaves at angle i * 2 pi / rayCount +
\* rotation; rayCount divides 32
getRayDirections(fp) ==
    [i \in 1..fp.rayCount |->
        Rotate(CosStep(((i - 1) * 32) \div fp.rayCount),
               SinStep(((i - 1) * 32) \div fp.rayCount), fp.rotation)]

\* FocalPoint.getRayOriginsAndDirections: origins on the circle of fp.radius
getRayOriginsAndDirections(fp) ==
    LET directions == getRayDirections(fp)
    IN  [i \in 1..fp.rayCount |->
            [origin |-> Vec(fp.position.x + (fp.radius * directions[i].x) \div Unit,
                            fp.position.y + (fp.radius * directions[i].y) \div Unit),
             direction |-> directions[i]]]

-----------------------------------------------------------------------------
(* RayTracer: the functions traceRay calls *)

\* RayTracer.findContainingObject: the last object containing the point
findContainingObject(h, objs, point) ==
    LET inside == {i \in 1..Len(objs) : containsPoint(h[objs[i]], point.x, point.y)}
    IN  IF inside = {} THEN Null ELSE objs[SetMax(inside)]

\* One edge test of getCanvasBoundaryDistance: the crossing of the line
\* coordinate = edge, as a fraction t, when t > 0 and the other coordinate
\* falls within [0, limit]
EdgeCrossing(o, d, edge, oOther, dOther, limit) ==
    IF d = 0 THEN {}
    ELSE LET t == Frac((edge - o) * Unit, d)
             other == oOther * t.d + (t.n * dOther) \div Unit
         IN  IF t.n > 0 /\ other >= 0 /\ other <= limit * t.d THEN {t} ELSE {}

\* RayTracer.getCanvasBoundaryDistance: NoDistance, or the least crossing in
\* pixels
getCanvasBoundaryDistance(st, ray) ==
    LET ox == ray.origin.x
        oy == ray.origin.y
        dx == ray.direction.x
        dy == ray.direction.y
        intersections ==
            EdgeCrossing(ox, dx, 0, oy, dy, st.canvasHeight)
            \cup EdgeCrossing(ox, dx, st.canvasWidth, oy, dy, st.canvasHeight)
            \cup EdgeCrossing(oy, dy, 0, ox, dx, st.canvasWidth)
            \cup EdgeCrossing(oy, dy, st.canvasHeight, ox, dx, st.canvasWidth)
    IN  IF intersections = {} THEN NoDistance
        ELSE LET least == CHOOSE t \in intersections :
                              \A u \in intersections : FracLE(t, u)
             IN  least.n \div least.d

\* findClosestIntersection, the end: the closer of the exit from the
\* current medium and the closest other shape
closerIntersection(exitIntersection, otherIntersection) ==
    IF exitIntersection.hit /\ otherIntersection.hit THEN
        IF exitIntersection.distance < otherIntersection.distance
        THEN exitIntersection ELSE otherIntersection
    ELSE IF exitIntersection.hit THEN exitIntersection
    ELSE IF otherIntersection.hit THEN otherIntersection
    ELSE noHit

\* closestIntersection.isTarget = closestIntersection.object?.type === 'Target'
withIsTarget(h, closestIntersection) ==
    [hit |-> closestIntersection.hit,
     distance |-> closestIntersection.distance,
     point |-> closestIntersection.point,
     normal |-> closestIntersection.normal,
     object |-> closestIntersection.object,
     isTarget |-> IF closestIntersection.object # Null
                  THEN h[closestIntersection.object].type = "Target" ELSE FALSE]

\* RayTracer.findClosestIntersection: the exit from the current medium
\* against the closest other shape, found through the tree when there is one
findClosestIntersection(st, tree, h, objs, tgts, ray, currentMedium) ==
    withIsTarget(h,
        closerIntersection(
            IF currentMedium # Null THEN rayObjectIntersection(ray, h[currentMedium])
            ELSE noHit,
            IF st.useBVH /\ tree # None THEN traverse(tree, h, ray, currentMedium)
            ELSE findClosestIntersectionBruteForce(h, objs, tgts, ray,
                                                   currentMedium)))

\* Variant of calculateNextRays: the refracted ray keeps the parent's medium
calculateNextRaysSameMedium(st, h, ray, intersection, currentMedium) ==
    LET material == h[intersection.object].material
        reflectivity == material.reflectivity
        n1 == IF currentMedium # Null THEN h[currentMedium].material.refractiveIndex
              ELSE st.airRefractiveIndex
        n2 == IF currentMedium # Null THEN st.airRefractiveIndex
              ELSE material.refractiveIndex
        reflectedDir == reflect(ray.direction, intersection.normal)
        refractedDir == refract(ray.direction, intersection.normal, n1, n2)
    IN  IF refractedDir # None THEN
            [reflected |-> spawn(ray, intersection.point, reflectedDir, reflectivity),
             refracted |-> spawn(ray, intersection.point, refractedDir, RDen - reflectivity),
             reflectedMedium |-> currentMedium,
             refractedMedium |-> currentMedium]
        ELSE
            [reflected |-> spawn(ray, intersection.point, reflectedDir, RDen),
             refracted |-> None,
             reflectedMedium |-> currentMedium,
             refractedMedium |-> Null]

\* Variant of calculateNextRays: on total internal reflection the reflected
\* ray gets the reflective share only
calculateNextRaysDimTIR(st, h, ray, intersection, currentMedium) ==
    LET material == h[intersection.object].material
        reflectivity == material.reflectivity
        n1 == IF currentMedium # Null THEN h[currentMedium].material.refractiveIndex
              ELSE st.airRefractiveIndex
        n2 == IF currentMedium # Null THEN st.airRefractiveIndex
              ELSE material.refractiveIndex
        reflectedDir == reflect(ray.direction, intersection.normal)
        refractedDir == refract(ray.direction, intersection.normal, n1, n2)
        newMedium == IF currentMedium # Null THEN Null ELSE intersection.object
    IN  IF refractedDir # None THEN
            [reflected |-> spawn(ray, intersection.point, reflectedDir, reflectivity),
             refracted |-> spawn(ray, intersection.point, refractedDir, RDen - reflectivity),
             reflectedMedium |-> currentMedium,
             refractedMedium |-> newMedium]
        ELSE
            [reflected |-> spawn(ray, intersection.point, reflectedDir, reflectivity),
             refracted |-> None,
             reflectedMedium |-> currentMedium,
             refractedMedium |-> Null]

\* RayTracer.calculateNextRays; refracted is None on total internal
\* reflection
calculateNextRays(st, h, ray, intersection, currentMedium) ==
    LET material == h[intersection.object].material
        reflectivity == material.reflectivity
        n1 == IF currentMedium # Null THEN h[currentMedium].material.refractiveIndex
              ELSE st.airRefractiveIndex
        n2 == IF currentMedium # Null THEN st.airRefractiveIndex
              ELSE material.refractiveIndex
        reflectedDir == reflect(ray.direction, intersection.normal)
        refractedDir == refract(ray.direction, intersection.normal, n1, n2)
        newMedium == IF currentMedium # Null THEN Null ELSE intersection.object
    IN  IF refractedDir # None THEN
            [reflected |-> spawn(ray, intersection.point, reflectedDir, reflectivity),
             refracted |-> spawn(ray, intersection.point, refractedDir, RDen - reflectivity),
             reflectedMedium |-> currentMedium,
             refractedMedium |-> newMedium]
        ELSE
            [reflected |-> spawn(ray, intersection.point, reflectedDir, RDen),
             refracted |-> None,
             reflectedMedium |-> currentMedium,
             refractedMedium |-> Null]

-----------------------------------------------------------------------------
(* Constructors of the shapes *)

Clamp(lo, hi, v) == IF v < lo THEN lo ELSE IF v > hi THEN hi ELSE v

\* Material.validateReflectivity: clamped to [0, 1]
validateReflectivity(value) == Clamp(0, RDen, value)

\* Material.validateRefractiveIndex: clamped to [1.0, 2.5]
validateRefractiveIndex(value) == Clamp(NDen, (5 * NDen) \div 2, value)

\* new Material({reflectivity, refractiveIndex})
Material(reflectivity, refractiveIndex) ==
    [reflectivity |-> validateReflectivity(reflectivity),
     refractiveIndex |-> validateRefractiveIndex(refractiveIndex)]

\* Rectangle.validateDimension, Target.validateSize, Ellipse.validateRadius
validateDimension(value) == IF value <= 0 THEN 1 ELSE value

\* FocalPoint.validateRayCount
validateRayCount(value) == Clamp(1, 360, value)

\* FocalPoint.validateRayLength
validateRayLength(value) == IF value <= 0 THEN 1000 ELSE value

\* new Rectangle({id, x, y, width, height, rotation, material})
Rectangle(id, x, y, width, height, rotation, material) ==
    [id |-> id, type |-> "Rectangle", position |-> Vec(x, y),
     rotation |-> rotation, material |-> material,
     width |-> validateDimension(width), height |-> validateDimension(height)]

\* new Circle({id, x, y, radius, rotation, material})
Circle(id, x, y, radius, rotation, material) ==
    [id |-> id, type |-> "Circle", position |-> Vec(x, y),
     rotation |-> rotation, material |-> material,
     rx |-> validateDimension(radius), ry |-> validateDimension(radius)]

\* new Target({id, x, y, size, rotation}); the material is the default one
Target(id, x, y, size, rotation) ==
    [id |-> id, type |-> "Target", position |-> Vec(x, y),
     rotation |-> rotation, material |-> Material(1, 6),
     size |-> validateDimension(size)]

\* new FocalPoint({id, x, y, rayCount, rayLength, rotation, emitFromSurface})
FocalPoint(id, x, y, rayCount, rayLength, rotation, emitFromSurface) ==
    [id |-> id, type |-> "FocalPoint", position |-> Vec(x, y),
     rotation |-> rotation, material |-> Material(1, 6),
     rayCount |-> validateRayCount(rayCount),
     rayLength |-> validateRayLength(rayLength),
     radius |-> 8, emitFromSurface |-> emitFromSurface]

-----------------------------------------------------------------------------
(* The shapes and scenes explored.  The canvas is CanvasWidth x            *)
(* CanvasHeight pixels; rays leave along an axis, or along (0.6, 0.8)      *)
(* inside a dense rectangle laid out so that every hit is at whole pixels. *)

CanvasWidth == 48
CanvasHeight == 36

Mirror == Material(RDen, 6)             \* reflectivity 1.0, index 1.5
Glass == Material(1, 6)                 \* reflectivity 0.5, index 1.5
Clear == Material(0, 6)                 \* reflectivity 0.0, index 1.5
Dense == Material(1, 8)                 \* reflectivity 0.5, index 2.0

\* Every shape the user may create, by id
Pool ==
    [f1 |-> FocalPoint("f1", 6, 18, 1, 1000, Rot0, FALSE),
     m1 |-> Rectangle("m1", 18, 18, 4, 8, Rot0, Mirror),
     f2 |-> FocalPoint("f2", 6, 18, 1, 1000, Rot0, FALSE),
     g2 |-> Rectangle("g2", 18, 18, 4, 8, Rot0, Glass),
     t2 |-> Target("t2", 38, 18, 4, Rot0),
     f3 |-> FocalPoint("f3", 24, 18, 1, 12, Rot345, FALSE),
     d3 |-> Rectangle("d3", 24, 18, 6, 16, Rot0, Dense),
     f4 |-> FocalPoint("f4", 24, 18, 4, 1000, Rot0, TRUE),
     a4 |-> Rectangle("a4", 40, 18, 2, 2, Rot0, Glass),
     b4 |-> Rectangle("b4", 40, 32, 2, 2, Rot0, Mirror),
     c4 |-> Rectangle("c4", 8, 18, 2, 2, Rot0, Clear),
     d4 |-> Rectangle("d4", 8, 4, 2, 2, Rot0, Glass),
     e4 |-> Rectangle("e4", 40, 4, 2, 2, Rot0, Glass),
     t4 |-> Target("t4", 44, 18, 4, Rot0),
     x5 |-> Rectangle("x5", 32, 18, 2, 4, Rot0, Glass),
     t5 |-> Target("t5", 12, 18, 2, Rot0),
     o6 |-> Rectangle("o6", 54, 18, 4, 8, Rot0, Glass)]   \* off the canvas

Ids == DOMAIN Pool

Unknown == "unknown"        \* an id no shape carries

\* The scene files importScene is given
Scenes ==
    { [focalPoints |-> <<"f1">>, targets |-> <<>>, objects |-> <<"m1">>],
      [focalPoints |-> <<"f2">>, targets |-> <<"t2">>, objects |-> <<"g2">>],
      [focalPoints |-> <<"f3">>, targets |-> <<>>, objects |-> <<"d3">>],
      [focalPoints |-> <<"f4">>, targets |-> <<"t4">>,
       objects |-> <<"a4", "b4", "c4", "d4", "e4">>] }

\* The shapes the tool palette adds
Palette == {"x5", "t5"}

-----------------------------------------------------------------------------
(* sceneStore *)

MaxEdits == 2               \* store edits explored in one run

InScene(id) ==
    \/ \E i \in 1..Len(focalPoints) : focalPoints[i] = id
    \/ \E i \in 1..Len(targets) : targets[i] = id
    \/ \E i \in 1..Len(objects) : objects[i] = id

IndexOf(ids, id) ==
    IF \E i \in 1..Len(ids) : ids[i] = id
    THEN SetMin({i \in 1..Len(ids) : ids[i] = id}) ELSE 0

RemoveAt(ids, index) ==
    SubSeq(ids, 1, index - 1) \o SubSeq(ids, index + 1, Len(ids))

\* The traceAll calls made since the scene or the trace settings last
\* changed: none
NoCalls ==
    [calls |-> 0, rebuilt |-> FALSE, returned |-> <<>>, before |-> <<>>]

\* traceAll is entered: rebuilt tells whether this call invokes rebuildBVH;
\* before keeps what the previous call returned
Called(hist, rebuilt) ==
    [calls |-> IF hist.calls < 2 THEN hist.calls + 1 ELSE 2,
     rebuilt |-> rebuilt, returned |-> <<>>, before |-> hist.returned]

\* Every edit is seen by a watcher of RayRenderer, which queues render()
Edited ==
    /\ edits' = edits + 1
    /\ renderPending' = TRUE
    /\ history' = NoCalls
    /\ UNCHANGED <<maxBounces, minIntensity, showRays, settings, bvh, bvhDirty,
                   pc, primaries, rayQueue, segs, iterations, probe, rayColor>>

\* sceneStore.addObject(object, select) with a shape the palette created, or
\* with one that is in the scene already
AddObject(id, select) ==
    /\ pc = "idle" /\ edits < MaxEdits
    /\ heap[id] = None \/ InScene(id)
    /\ LET object == IF heap[id] = None THEN Pool[id] ELSE heap[id]
           duplicate == InScene(id)
       IN  /\ heap' = [heap EXCEPT ![id] = object]
           /\ focalPoints' = IF object.type = "FocalPoint" /\ ~duplicate
                             THEN Append(focalPoints, id) ELSE focalPoints
           /\ targets' = IF object.type = "Target" /\ ~duplicate
                         THEN Append(targets, id) ELSE targets
           /\ objects' = IF object.type \notin {"FocalPoint", "Target"} /\ ~duplicate
                         THEN Append(objects, id) ELSE objects
           /\ selectedObjectId' = IF select /\ ~duplicate THEN id
                                  ELSE selectedObjectId
    /\ Edited

\* The body of sceneStore.removeObject(id).  An id found in none of the
\* lists gives index -1: splice(-1, 1) removes the last object, and the
\* handler then stops on reading object.type of undefined.
Removed(id) ==
    /\ LET focalIndex == IndexOf(focalPoints, id)
           targetIndex == IndexOf(targets, id)
           index == IndexOf(objects, id)
       IN  IF focalIndex # 0 THEN
               /\ focalPoints' = RemoveAt(focalPoints, focalIndex)
               /\ UNCHANGED <<targets, objects>>
           ELSE IF targetIndex # 0 THEN
               /\ targets' = RemoveAt(targets, targetIndex)
               /\ UNCHANGED <<focalPoints, objects>>
           ELSE
               /\ objects' = IF index # 0 THEN RemoveAt(objects, index)
                             ELSE SubSeq(objects, 1, Len(objects) - 1)
               /\ UNCHANGED <<focalPoints, targets>>
    /\ selectedObjectId' = IF selectedObjectId = id THEN Null ELSE selectedObjectId
    /\ UNCHANGED heap

\* sceneStore.removeObject(id)
RemoveObject(id) ==
    /\ pc = "idle" /\ edits < MaxEdits
    /\ Removed(id)
    /\ Edited

\* The updates given to updateObject: keys are the properties defined
NoUpdates ==
    [keys |-> {}, x |-> 0, reflectivity |-> 0, width |-> 0, size |-> 0]

UpdatePool ==
    { [NoUpdates EXCEPT !.keys = {"x"}, !.x = 20],
      [NoUpdates EXCEPT !.keys = {"reflectivity"}, !.reflectivity = 3],
      [NoUpdates EXCEPT !.keys = {"width"}, !.width = 8],
      [NoUpdates EXCEPT !.keys = {"size"}, !.size = 0] }

\* The setters updateObject calls on the object
Updated(object, updates) ==
    LET moved == IF "x" \in updates.keys
                 THEN [object EXCEPT !.position = Vec(updates.x, object.position.y)]
                 ELSE object
        coated == IF "reflectivity" \in updates.keys
                  THEN [moved EXCEPT !.material.reflectivity =
                                         validateReflectivity(updates.reflectivity)]
                  ELSE moved
    IN  IF object.type = "Rectangle" /\ "width" \in updates.keys
        THEN [coated EXCEPT !.width = validateDimension(updates.width)]
        ELSE IF object.type = "Target" /\ "size" \in updates.keys
        THEN [coated EXCEPT !.size = validateDimension(updates.size)]
        ELSE coated

\* sceneStore.updateObject(id, updates)
UpdateObject(id, updates) ==
    /\ pc = "idle" /\ edits < MaxEdits
    /\ heap' = IF InScene(id) THEN [heap EXCEPT ![id] = Updated(heap[id], updates)]
               ELSE heap
    /\ UNCHANGED <<objects, targets, focalPoints, selectedObjectId>>
    /\ Edited

\* sceneStore.clearScene()
ClearScene ==
    /\ pc = "idle" /\ edits < MaxEdits
    /\ objects' = <<>> /\ focalPoints' = <<>> /\ targets' = <<>>
    /\ selectedObjectId' = Null
    /\ UNCHANGED heap
    /\ Edited

\* sceneStore.importScene(json): the scene is cleared and the shapes of the
\* file are created anew
ImportScene(json) ==
    /\ pc = "idle" /\ edits < MaxEdits
    /\ \A i \in 1..Len(json.focalPoints) : heap[json.focalPoints[i]] = None
    /\ \A i \in 1..Len(json.targets) : heap[json.targets[i]] = None
    /\ \A i \in 1..Len(json.objects) : heap[json.objects[i]] = None
    /\ LET created == {json.focalPoints[i] : i \in 1..Len(json.focalPoints)}
                      \cup {json.targets[i] : i \in 1..Len(json.targets)}
                      \cup {json.objects[i] : i \in 1..Len(json.objects)}
       IN  heap' = [id \in Ids |-> IF id \in created THEN Pool[id] ELSE heap[id]]
    /\ focalPoints' = json.focalPoints
    /\ targets' = json.targets
    /\ objects' = json.objects
    /\ selectedObjectId' = Null
    /\ Edited

-----------------------------------------------------------------------------
(* simulationStore *)

MaxBouncesAsked == 3        \* the largest value given to setMaxBounces

SettingEdited ==
    /\ edits' = edits + 1
    /\ renderPending' = TRUE
    /\ UNCHANGED <<heap, objects, targets, focalPoints, selectedObjectId,
                   settings, bvh, bvhDirty, pc, primaries, rayQueue, segs,
                   iterations, probe>>

\* simulationStore.setMaxBounces(value)
SetMaxBounces(value) ==
    /\ pc = "idle" /\ edits < MaxEdits
    /\ maxBounces' = Clamp(0, 20, value)
    /\ history' = NoCalls
    /\ UNCHANGED <<minIntensity, showRays, rayColor>>
    /\ SettingEdited

\* simulationStore.setMinIntensity(value)
SetMinIntensity(value) ==
    /\ pc = "idle" /\ edits < MaxEdits
    /\ minIntensity' = Clamp(0, IUnit, value)
    /\ history' = NoCalls
    /\ UNCHANGED <<maxBounces, showRays, rayColor>>
    /\ SettingEdited

\* simulationStore.toggleRays()
ToggleRays ==
    /\ pc = "idle" /\ edits < MaxEdits
    /\ showRays' = ~showRays
    /\ UNCHANGED <<maxBounces, minIntensity, rayColor, history>>
    /\ SettingEdited

\* The colours the colour picker is given
Colors == {"#00ff00", "#ff0000"}

\* simulationStore.setRayColor(color)
SetRayColor(color) ==
    /\ pc = "idle" /\ edits < MaxEdits
    /\ rayColor' = color
    /\ UNCHANGED <<maxBounces, minIntensity, showRays, history>>
    /\ SettingEdited

-----------------------------------------------------------------------------
(* RayRenderer.render and RayTracer.traceAll *)

\* The first queue entry of traceRay(ray, maxDistance, currentMedium)
Entry(ray, medium, distance, startPoint, parent, via) ==
    [ray |-> ray, medium |-> medium, distance |-> distance,
     startPoint |-> startPoint, parent |-> parent,
     via |-> via]       \* via: how the ray arose (kept for the statements)

\* RayTracer.traceFocalPoint: the primary rays of one focal point, each with
\* its starting medium
traceFocalPoint(h, objs, fp) ==
    IF fp.emitFromSurface THEN
        LET rayData == getRayOriginsAndDirections(fp)
        IN  [i \in 1..Len(rayData) |->
                Entry(Ray(rayData[i].origin, rayData[i].direction, IUnit, 0),
                      findContainingObject(h, objs, rayData[i].origin),
                      fp.rayLength, rayData[i].origin, 0, "primary")]
    ELSE
        LET directions == getRayDirections(fp)
            startingMedium == findContainingObject(h, objs, fp.position)
        IN  [i \in 1..Len(directions) |->
                Entry(Ray(fp.position, directions[i], IUnit, 0), startingMedium,
                      fp.rayLength, fp.position, 0, "primary")]

RECURSIVE PrimaryRays(_, _, _, _)
PrimaryRays(h, objs, fps, i) ==
    IF i > Len(fps) THEN <<>>
    ELSE traceFocalPoint(h, objs, h[fps[i]]) \o PrimaryRays(h, objs, fps, i + 1)

\* Variant of the test in traceAll: the tree is rebuilt on every call
rebuildOnEveryCall(dirty, tree) == TRUE

\* traceAll: if (this.bvhDirty || !this.bvh) this.rebuildBVH()
needsRebuild(dirty, tree) == dirty \/ tree = None

\* Variant of rebuildBVH: the tree is built over the objects alone
rebuildBVHWithoutTargets(h, objs, tgts) ==
    IF Len(objs) = 0 THEN None ELSE BVH(h, objs, 4)

\* RayTracer.rebuildBVH: the tree over objects and targets, or None
rebuildBVH(h, objs, tgts) ==
    LET allObjects == objs \o tgts
    IN  IF Len(allObjects) = 0 THEN None ELSE BVH(h, allObjects, 4)

\* RayRenderer.render() up to the first ray of traceAll: the drawing is
\* cleared, the settings are copied, the tree is rebuilt if it is marked
\* dirty or missing
Render ==
    /\ pc = "idle" /\ renderPending
    /\ renderPending' = FALSE
    /\ segs' = <<>>
    /\ iterations' = 0
    /\ probe' = [op |-> "render"]
    /\ IF ~showRays THEN
           UNCHANGED <<settings, bvh, bvhDirty, pc, primaries, rayQueue, history>>
       ELSE
           /\ history' = Called(history, needsRebuild(bvhDirty, bvh))
           /\ settings' = [settings EXCEPT !.maxBounces = maxBounces,
                                           !.minIntensity = minIntensity]
           /\ IF needsRebuild(bvhDirty, bvh)
              THEN /\ bvh' = rebuildBVH(heap, objects, targets)
                   /\ bvhDirty' = FALSE
              ELSE UNCHANGED <<bvh, bvhDirty>>
           /\ primaries' = PrimaryRays(heap, objects, focalPoints, 1)
           /\ rayQueue' = <<>>
           /\ pc' = "trace"
    /\ UNCHANGED <<heap, objects, targets, focalPoints, selectedObjectId,
                   maxBounces, minIntensity, showRays, edits, rayColor>>

\* traceAll calls traceRay for the next primary ray
BeginRay ==
    /\ pc = "trace" /\ rayQueue = <<>> /\ primaries # <<>>
    /\ rayQueue' = <<Head(primaries)>>
    /\ primaries' = Tail(primaries)
    /\ probe' = [op |-> "begin"]
    /\ UNCHANGED <<heap, objects, targets, focalPoints, selectedObjectId,
                   maxBounces, minIntensity, showRays, settings, bvh, bvhDirty,
                   renderPending, pc, segs, iterations, edits, rayColor,
                   history>>

\* Variant of Finish: traceAll takes the focal points off the list it traced
FinishTakingFocalPoints ==
    /\ pc = "trace" /\ rayQueue = <<>> /\ primaries = <<>>
    /\ pc' = "idle"
    /\ probe' = [op |-> "finish"]
    /\ history' = [history EXCEPT !.returned = segs]
    /\ focalPoints' = <<>>
    /\ UNCHANGED <<heap, objects, targets, selectedObjectId,
                   maxBounces, minIntensity, showRays, settings, bvh, bvhDirty,
                   renderPending, primaries, rayQueue, segs, iterations, edits,
                   rayColor>>

\* traceAll returns and render() draws the segment trees
Finish ==
    /\ pc = "trace" /\ rayQueue = <<>> /\ primaries = <<>>
    /\ pc' = "idle"
    /\ probe' = [op |-> "finish"]
    /\ history' = [history EXCEPT !.returned = segs]
    /\ UNCHANGED <<heap, objects, targets, focalPoints, selectedObjectId,
                   maxBounces, minIntensity, showRays, settings, bvh, bvhDirty,
                   renderPending, primaries, rayQueue, segs, iterations, edits,
                   rayColor>>

-----------------------------------------------------------------------------
(* RayTracer.traceRay: one iteration of the work-queue loop *)

\* A segment; parent and children are positions in segs (0: no parent).
\* generation, ends, object, medium, distance, remaining and via record the
\* ray and the hit that made the segment.
Segment(entry, end, hitsTarget, ends, object, distance) ==
    [start |-> entry.startPoint, end |-> end,
     intensity |-> entry.ray.intensity, hitsTarget |-> hitsTarget,
     parent |-> entry.parent, children |-> <<>>,
     generation |-> entry.ray.generation, ends |-> ends, object |-> object,
     medium |-> entry.medium, distance |-> distance,
     remaining |-> entry.distance, via |-> entry.via]

\* Variant of markPathToTarget: only the direct parent is marked
markParentOnly(ss, segment) ==
    IF segment = 0 THEN ss
    ELSE [ss EXCEPT ![segment].hitsTarget = TRUE]

\* RayTracer.markPathToTarget(segment): the segment and its ancestors
RECURSIVE markPathToTarget(_, _)
markPathToTarget(ss, segment) ==
    IF segment = 0 THEN ss
    ELSE markPathToTarget([ss EXCEPT ![segment].hitsTarget = TRUE],
                          ss[segment].parent)

\* Variant of Pushed: the new segment replaces the parent's children
PushedAsOnlyChild(ss, segment) ==
    Append(IF segment.parent = 0 THEN ss
           ELSE [ss EXCEPT ![segment.parent].children = <<Len(ss) + 1>>],
           segment)

\* parentSegments.push(segment)
Pushed(ss, segment) ==
    LET k == Len(ss) + 1
        linked == IF segment.parent = 0 THEN ss
                  ELSE [ss EXCEPT ![segment.parent].children = Append(@, k)]
    IN  Append(linked, segment)

\* Variant of ClosestHit: the canvas boundary wins whenever the ray meets it
ClosestHitCanvasFirst(intersection, canvasBoundaryDist) ==
    IF ~intersection.hit /\ canvasBoundaryDist = NoDistance THEN "nothing"
    ELSE IF canvasBoundaryDist # NoDistance THEN "canvas"
    ELSE IF intersection.isTarget THEN "target" ELSE "object"

\* What the ray of a queue entry meets first: the candidates are the closest
\* intersection, then the canvas boundary, sorted by distance (stable)
ClosestHit(intersection, canvasBoundaryDist) ==
    IF ~intersection.hit /\ canvasBoundaryDist = NoDistance THEN "nothing"
    ELSE IF intersection.hit
            /\ (canvasBoundaryDist = NoDistance
                \/ intersection.distance <= canvasBoundaryDist)
    THEN IF intersection.isTarget THEN "target" ELSE "object"
    ELSE "canvas"

\* Variant of MayBounce: the generation is not compared with maxBounces
MayBounceAtAnyGeneration(st, entry, intersection) ==
    IF intersection.distance >= entry.distance THEN FALSE
    ELSE IF entry.distance - intersection.distance <= 0 THEN FALSE
    ELSE TRUE

\* Variant of MayBounce: the remaining distance is not looked at
MayBounceAtAnyDistance(st, entry, intersection) ==
    IF entry.ray.generation >= st.maxBounces THEN FALSE
    ELSE TRUE

\* After an object hit: whether distance and bounces remain for children
MayBounce(st, entry, intersection) ==
    IF intersection.distance >= entry.distance THEN FALSE
    ELSE IF entry.distance - intersection.distance <= 0
            \/ entry.ray.generation >= st.maxBounces THEN FALSE
    ELSE TRUE

\* The entries pushed for the rays of calculateNextRays: the reflected ray,
\* then the refracted ray when there is one
childEntries(nextRays, newRemainingDistance, point, k) ==
    IF nextRays.refracted # None
    THEN <<Entry(nextRays.reflected, nextRays.reflectedMedium,
                 newRemainingDistance, point, k, "reflected"),
           Entry(nextRays.refracted, nextRays.refractedMedium,
                 newRemainingDistance, point, k, "refracted")>>
    ELSE <<Entry(nextRays.reflected, nextRays.reflectedMedium,
                 newRemainingDistance, point, k, "reflected")>>

\* The entries pushed after an object hit by the entry that made segment k
Children(st, h, entry, intersection, k) ==
    childEntries(calculateNextRays(st, h, entry.ray, intersection, entry.medium),
                 entry.distance - intersection.distance, intersection.point, k)

\* One iteration, once the closest intersection and the distance to the
\* canvas boundary are known: the segments after it and the entries it
\* pushes
IterationWith(st, h, ss, entry, intersection, canvasBoundaryDist) ==
    LET currentRay == entry.ray
        closestHit == ClosestHit(intersection, canvasBoundaryDist)
        k == Len(ss) + 1
    IN  IF currentRay.intensity < st.minIntensity THEN
            [segments |-> ss, pushed |-> <<>>, outcome |-> "dropped",
             hit |-> noHit]
        ELSE IF closestHit = "nothing" THEN
            [segments |-> ss, pushed |-> <<>>, outcome |-> "nothing",
             hit |-> noHit]
        ELSE IF closestHit = "canvas" THEN
            [segments |-> Pushed(ss, Segment(entry,
                              pointAt(currentRay, canvasBoundaryDist), FALSE,
                              "canvas", Null, canvasBoundaryDist)),
             pushed |-> <<>>, outcome |-> "canvas", hit |-> noHit]
        ELSE IF closestHit = "target" THEN
            [segments |-> markPathToTarget(
                              Pushed(ss, Segment(entry, intersection.point, TRUE,
                                                 "target", intersection.object,
                                                 intersection.distance)),
                              entry.parent),
             pushed |-> <<>>, outcome |-> "target", hit |-> intersection]
        ELSE
            [segments |-> Pushed(ss, Segment(entry, intersection.point, FALSE,
                                             "object", intersection.object,
                                             intersection.distance)),
             pushed |-> IF MayBounce(st, entry, intersection)
                        THEN Children(st, h, entry, intersection, k) ELSE <<>>,
             outcome |-> "object", hit |-> intersection]

\* The outcome of one iteration on the entry at the head of the queue
Iteration(st, tree, h, objs, tgts, ss, entry) ==
    IterationWith(st, h, ss, entry,
                  findClosestIntersection(st, tree, h, objs, tgts, entry.ray,
                                          entry.medium),
                  getCanvasBoundaryDistance(st, entry.ray))

\* The queue, the segments and the record of the iteration after it
Iterated(entry, result) ==
    /\ segs' = result.segments
    /\ rayQueue' = Tail(rayQueue) \o result.pushed
    /\ probe' = [op |-> "step", entry |-> entry, pushed |-> result.pushed,
                 outcome |-> result.outcome, hit |-> result.hit,
                 emitted |-> Len(result.segments) - Len(segs)]

\* while (rayQueue.length > 0) { rayQueue.shift(); ... }
Step ==
    /\ pc = "trace" /\ rayQueue # <<>>
    /\ Iterated(Head(rayQueue),
                Iteration(settings, bvh, heap, objects, targets, segs,
                          Head(rayQueue)))
    /\ iterations' = iterations + 1
    /\ UNCHANGED <<heap, objects, targets, focalPoints, selectedObjectId,
                   maxBounces, minIntensity, showRays, settings, bvh, bvhDirty,
                   renderPending, pc, primaries, edits, rayColor, history>>

-----------------------------------------------------------------------------
(* The program *)

Init ==
    /\ heap = [id \in Ids |-> None]
    /\ objects = <<>> /\ targets = <<>> /\ focalPoints = <<>>
    /\ selectedObjectId = Null
    /\ maxBounces = 5 /\ minIntensity = IUnit \div 100 /\ showRays = TRUE
    /\ settings = [maxBounces |-> 5, minIntensity |-> IUnit \div 100,
                   airRefractiveIndex |-> NDen, canvasWidth |-> CanvasWidth,
                   canvasHeight |-> CanvasHeight, useBVH |-> TRUE]
    /\ bvh = None /\ bvhDirty = TRUE
    /\ renderPending = TRUE
    /\ pc = "idle" /\ primaries = <<>> /\ rayQueue = <<>> /\ segs = <<>>
    /\ iterations = 0
    /\ edits = 0
    /\ probe = [op |-> "none"]
    /\ rayColor = "#00ff00"
    /\ history = NoCalls

Next ==
    \/ \E id \in Palette, select \in BOOLEAN : AddObject(id, select)
    \/ \E id \in Ids \cup {Unknown} : (InScene(id) \/ id = Unknown) /\ RemoveObject(id)
    \/ \E id \in Ids, updates \in UpdatePool : InScene(id) /\ UpdateObject(id, updates)
    \/ ClearScene
    \/ \E json \in Scenes : ImportScene(json)
    \/ \E value \in -1..MaxBouncesAsked : SetMaxBounces(value)
    \/ \E value \in {0, IUnit \div 2, 2 * IUnit} : SetMinIntensity(value)
    \/ ToggleRays
    \/ Render
    \/ BeginRay
    \/ Step
    \/ Finish

Spec == Init /\ [][Next]_vars

\* Step seen through the iteration counter: while a trace runs only Step
\* changes iterations, and Step can be taken exactly when the queue is not
\* empty
LoopIteration ==
    pc = "trace" /\ rayQueue # <<>> /\ iterations' = iterations + 1

\* render() is synchronous: once it has started, the loops of traceAll and
\* traceRay run until they return
FairSpec ==
    Spec /\ WF_vars(BeginRay) /\ WF_iterations(LoopIteration) /\ WF_vars(Finish)

-----------------------------------------------------------------------------
(* The tree against the brute-force loop: a scene is fixed, its tree is   *)
(* built, and rays are sent through both.                                  *)

BVHPool ==
    [c1 |-> Circle("c1", 400, 300, 250, RotTenth, Glass),
     c2 |-> Circle("c2", 200, 300, 50, Rot0, Glass),
     r1 |-> Rectangle("r1", 100, 100, 40, 20, Rot0, Glass),
     r2 |-> Rectangle("r2", 700, 100, 20, 40, Rot90, Glass),
     r3 |-> Rectangle("r3", 100, 500, 30, 30, Rot0, Mirror),
     r4 |-> Rectangle("r4", 700, 500, 30, 30, Rot0, Glass),
     r5 |-> Rectangle("r5", 400, 300, 100, 60, Rot0, Dense),
     r6 |-> Rectangle("r6", 649, 300, 20, 600, Rot0, Glass),
     t1 |-> Target("t1", 400, 50, 20, Rot0),
     t2 |-> Target("t2", 649, 300, 20, Rot0),
     r7 |-> Rectangle("r7", 300, 200, 40, 40, Rot0, Glass),
     r8 |-> Rectangle("r8", 500, 400, 10, 80, Rot0, Glass),
     r9 |-> Rectangle("r9", 100, 300, 60, 20, Rot90, Mirror)]

BVHScenes ==
    { [objects |-> <<"c1">>, targets |-> <<>>],
      [objects |-> <<"c2">>, targets |-> <<"t1">>],
      [objects |-> <<"r1", "r2", "r3", "r4", "r5">>, targets |-> <<"t1">>],
      [objects |-> <<"c2", "r1", "r2", "r3", "r4", "r5">>, targets |-> <<"t1", "t2">>],
      [objects |-> <<"r5", "c1", "r1", "r3">>, targets |-> <<"t1", "t2">>],
      [objects |-> <<"r1", "r2", "r3", "r4", "r5", "c1">>, targets |-> <<>>],
      [objects |-> <<"r6", "c1", "r1", "r3", "r5", "r2", "r4">>, targets |-> <<>>] }

ProbeOrigins ==
    { Vec(649, 0), Vec(400, 0), Vec(0, 300), Vec(100, 0), Vec(0, 100),
      Vec(400, 300), Vec(0, 0), Vec(700, 600) }

ProbeDirections == { Vec(0, 1), Vec(1, 0), Vec(3, 4), Vec(0, -1), Vec(-1, 0) }

InitBVH ==
    /\ \E scene \in BVHScenes :
        /\ objects = scene.objects
        /\ targets = scene.targets
    /\ heap = BVHPool
    /\ focalPoints = <<>>
    /\ selectedObjectId = Null
    /\ maxBounces = 5 /\ minIntensity = IUnit \div 100 /\ showRays = TRUE
    /\ settings = [maxBounces |-> 5, minIntensity |-> IUnit \div 100,
                   airRefractiveIndex |-> NDen, canvasWidth |-> 800,
                   canvasHeight |-> 600, useBVH |-> TRUE]
    /\ bvh = rebuildBVH(heap, objects, targets) /\ bvhDirty = FALSE
    /\ renderPending = FALSE
    /\ pc = "idle" /\ primaries = <<>> /\ rayQueue = <<>> /\ segs = <<>>
    /\ iterations = 0
    /\ edits = 0
    /\ probe = [op |-> "none"]
    /\ rayColor = "#00ff00"
    /\ history = NoCalls

\* bvh.traverse(ray, medium), findClosestIntersectionBruteForce(ray, medium)
\* and findClosestIntersection(ray, medium) on the same ray; exit is the
\* ray's intersection with the medium itself
Probe(origin, direction, medium) ==
    /\ probe.op = "none"
    /\ probe' = [op |-> "probe",
                 ray |-> Ray(origin, direction, IUnit, 0),
                 medium |-> medium,
                 tree |-> traverse(bvh, heap, Ray(origin, direction, IUnit, 0), medium),
                 brute |-> findClosestIntersectionBruteForce(
                               heap, objects, targets,
                               Ray(origin, direction, IUnit, 0), medium),
                 exit |-> IF medium # Null
                          THEN rayObjectIntersection(
                                   Ray(origin, direction, IUnit, 0), heap[medium])
                          ELSE noHit,
                 found |-> findClosestIntersection(
                               settings, bvh, heap, objects, targets,
                               Ray(origin, direction, IUnit, 0), medium)]
    /\ UNCHANGED <<heap, objects, targets, focalPoints, selectedObjectId,
                   maxBounces, minIntensity, showRays, settings, bvh, bvhDirty,
                   renderPending, pc, primaries, rayQueue, segs, iterations,
                   edits, rayColor, history>>

MaxPerLeaf == 5             \* the largest maxObjectsPerLeaf given to new BVH

\* new BVH(allObjects, maxObjectsPerLeaf) over the scene
Build(maxObjectsPerLeaf) ==
    /\ probe.op = "none"
    /\ probe' = [op |-> "build", maxObjectsPerLeaf |-> maxObjectsPerLeaf,
                 built |-> BVH(heap, objects \o targets, maxObjectsPerLeaf)]
    /\ UNCHANGED <<heap, objects, targets, focalPoints, selectedObjectId,
                   maxBounces, minIntensity, showRays, settings, bvh, bvhDirty,
                   renderPending, pc, primaries, rayQueue, segs, iterations,
                   edits, rayColor, history>>

\* The shapes of the pool in the orders findBestSplit is given them
SplitOrders ==
    { <<"r6", "c1", "r1", "r3", "r5", "r2", "r4", "c2", "t1", "t2", "r7", "r8", "r9">>,
      <<"r9", "r8", "r7", "t2", "t1", "c2", "r4", "r2", "r5", "r3", "r1", "c1", "r6">>,
      <<"r5", "c1", "t2", "r6", "r9", "r1", "r7", "r3", "r8", "r4", "t1", "r2", "c2">> }

\* bvh.findBestSplit(objs, boundingBoxes) as build calls it
FindBestSplit(objs) ==
    /\ probe.op = "none"
    /\ probe' = [op |-> "split", objects |-> objs,
                 candidates |-> SplitCandidates(objs,
                                    [i \in 1..Len(objs) |-> getBoundingBox(heap[objs[i]])]),
                 split |-> findBestSplit(objs,
                               [i \in 1..Len(objs) |-> getBoundingBox(heap[objs[i]])])]
    /\ UNCHANGED <<heap, objects, targets, focalPoints, selectedObjectId,
                   maxBounces, minIntensity, showRays, settings, bvh, bvhDirty,
                   renderPending, pc, primaries, rayQueue, segs, iterations,
                   edits, rayColor, history>>

NextBVH ==
    \/ \E origin \in ProbeOrigins, direction \in ProbeDirections,
          medium \in {Null} \cup {objects[i] : i \in 1..Len(objects)} :
            Probe(origin, direction, medium)
    \/ \E maxObjectsPerLeaf \in 1..MaxPerLeaf : Build(maxObjectsPerLeaf)
    \/ \E order \in SplitOrders : \E n \in 2..Len(order) :
            FindBestSplit(SubSeq(order, 1, n))

SpecBVH == InitBVH /\ [][NextBVH]_vars

\* C1: on a tree freshly built from the objects and targets, traverse and
\* the brute-force loop agree on whether the ray hits and, when both hit,
\* on the distance.
C1_TreeAgreesWithBruteForce ==
    probe.op = "probe" =>
        /\ probe.tree.hit = probe.brute.hit
        /\ (probe.tree.hit /\ probe.brute.hit
                => probe.tree.distance = probe.brute.distance)

-----------------------------------------------------------------------------
(* Statements about the trace *)

SegIds == 1..Len(segs)

\* Depth of segment i in its tree: the primary segment has depth 0
RECURSIVE Depth(_)
Depth(i) == IF segs[i].parent = 0 THEN 0 ELSE 1 + Depth(segs[i].parent)

\* The primary segment of the tree of segment i
RECURSIVE RootOf(_)
RootOf(i) == IF segs[i].parent = 0 THEN i ELSE RootOf(segs[i].parent)

\* j is i or a descendant of i
RECURSIVE InSubtree(_, _)
InSubtree(i, j) ==
    \/ j = i
    \/ segs[j].parent # 0 /\ InSubtree(i, segs[j].parent)

RECURSIVE Pow2(_)
Pow2(n) == IF n = 0 THEN 1 ELSE 2 * Pow2(n - 1)

\* C2: every traceAll that follows an edit queries a tree built from the
\* objects and targets in the scene at the time of the call, never a tree
\* built from an earlier state of the scene.
C2_TraceQueriesFreshTree ==
    pc = "trace" /\ edits > 0 => bvh = rebuildBVH(heap, objects, targets)

\* Each processed entry pushes at most two children, and only when its
\* ray's generation is below maxBounces
StepPushesWithinBudget ==
    probe.op = "step" =>
        /\ Len(probe.pushed) <= 2
        /\ (probe.pushed # <<>> =>
                probe.entry.ray.generation < settings.maxBounces)

\* C3: the work queue of traceRay eventually becomes empty and traceAll
\* returns; each processed entry pushes at most 2 children, and only from an
\* entry whose ray generation is below maxBounces.
C3_TraceTerminates ==
    /\ [] StepPushesWithinBudget
    /\ (pc = "trace") ~> (pc = "idle" /\ rayQueue = <<>>)

\* Reached: a trace with bounces has returned
C3_Witness ==
    /\ probe.op = "finish" /\ pc = "idle"
    /\ \E i \in SegIds : Len(segs[i].children) = 2

\* C4: a child segment is never brighter than its parent, every segment
\* has intensity at least minIntensity, and an entry whose ray is below
\* minIntensity makes no segment and pushes no children.
C4_IntensityBounds ==
    /\ \A i \in SegIds :
        /\ segs[i].intensity >= settings.minIntensity
        /\ segs[i].parent # 0 =>
               segs[i].intensity <= segs[segs[i].parent].intensity
    /\ (probe.op = "step" /\ probe.entry.ray.intensity < settings.minIntensity
            => probe.emitted = 0 /\ probe.pushed = <<>>)

\* Reached: an entry was dropped for its intensity, in a tree that holds a
\* child dimmer than its parent
C4_Witness ==
    /\ probe.op = "step" /\ probe.outcome = "dropped"
    /\ \E i \in SegIds :
        /\ segs[i].parent # 0
        /\ segs[i].intensity < segs[segs[i].parent].intensity

\* C5: once the queue of traceRay is drained, a segment has hitsTarget
\* exactly when it or one of its descendants ended on a Target.
C5_HitsTargetMarksPaths ==
    rayQueue = <<>> =>
        \A i \in SegIds :
            segs[i].hitsTarget <=>
                \E j \in SegIds : InSubtree(i, j) /\ segs[j].ends = "target"

\* Reached: a drained queue, a target hit two bounces deep, and a segment
\* off the path that is not marked
C5_Witness ==
    /\ pc = "trace" /\ rayQueue = <<>>
    /\ \E j \in SegIds : segs[j].ends = "target" /\ Depth(j) >= 2
    /\ \E i \in SegIds : ~segs[i].hitsTarget

\* C6: a segment has children only if it ended on a non-target object with
\* intersection.distance < remainingDistance and generation < maxBounces;
\* segments ending on the canvas or on a Target have none.
C6_ChildrenOnlyAfterObjectHit ==
    \A i \in SegIds :
        /\ segs[i].children # <<>> =>
            /\ segs[i].ends = "object"
            /\ heap[segs[i].object].type # "Target"
            /\ segs[i].distance < segs[i].remaining
            /\ segs[i].generation < settings.maxBounces
        /\ segs[i].ends \in {"canvas", "target"} => segs[i].children = <<>>

\* Reached: a segment with children, and an object hit left without
\* children because the distance ran out
C6_Witness ==
    /\ \E i \in SegIds : segs[i].children # <<>>
    /\ \E i \in SegIds : /\ segs[i].ends = "object"
                         /\ segs[i].distance >= segs[i].remaining
                         /\ segs[i].generation < settings.maxBounces
    /\ rayQueue = <<>>

\* C7: a segment at depth d comes from a ray of generation d; no queued ray
\* has generation above maxBounces; a tree has depth at most maxBounces and
\* at most 2^(maxBounces+1) - 1 segments; with maxBounces = 0 a primary ray
\* gives at most one segment, without children.
C7_DepthIsGeneration ==
    /\ \A i \in SegIds :
        /\ Depth(i) = segs[i].generation
        /\ Depth(i) <= settings.maxBounces
        /\ Cardinality({j \in SegIds : RootOf(j) = RootOf(i)})
               <= Pow2(settings.maxBounces + 1) - 1
        /\ settings.maxBounces = 0 =>
               segs[i].parent = 0 /\ segs[i].children = <<>>
    /\ \A q \in 1..Len(rayQueue) :
        rayQueue[q].ray.generation <= settings.maxBounces

\* Reached: an object hit with distance left, at the last generation allowed
C7_Witness ==
    \E i \in SegIds :
        /\ segs[i].ends = "object"
        /\ segs[i].generation = settings.maxBounces
        /\ segs[i].distance < segs[i].remaining
        /\ settings.maxBounces \in {0, 2}

\* The last iteration hit an object with distance and bounces left, so that
\* calculateNextRays was called and its rays were pushed
BouncedLast ==
    /\ probe.op = "step" /\ probe.outcome = "object"
    /\ MayBounce(settings, probe.entry, probe.hit)

\* n1 and n2 at the last hit: the index of the parent's medium (air when it
\* has none) and the index on the other side
IndexBefore ==
    IF probe.entry.medium # Null
    THEN heap[probe.entry.medium].material.refractiveIndex ELSE NDen

IndexAfter ==
    IF probe.entry.medium # Null
    THEN NDen ELSE heap[probe.hit.object].material.refractiveIndex

RefractedAtLast ==
    refract(probe.entry.ray.direction, probe.hit.normal, IndexBefore, IndexAfter)

ReflectedAtLast == reflect(probe.entry.ray.direction, probe.hit.normal)

ReflectivityAtLast == heap[probe.hit.object].material.reflectivity

MirrorHitInAir(i) ==
    /\ segs[i].ends = "object" /\ segs[i].medium = Null
    /\ heap[segs[i].object].material.reflectivity = RDen
    /\ segs[i].distance < segs[i].remaining
    /\ segs[i].generation < settings.maxBounces

\* C10: when a ray in air hits an object of reflectivity 1.0 with distance
\* and bounces left, then for every setting of minIntensity in [0, 1] the
\* hit segment ends up with exactly one child segment, the reflected one,
\* with the parent's intensity, and with no refracted child segment (looked
\* at when traceRay has drained its queue, the scene being the traced one).
C10_MirrorGivesOneChild ==
    pc = "trace" /\ rayQueue = <<>> =>
        \A i \in SegIds : MirrorHitInAir(i) =>
            /\ Len(segs[i].children) = 1
            /\ segs[segs[i].children[1]].via = "reflected"
            /\ segs[segs[i].children[1]].intensity = segs[i].intensity

\* The last probe was a ray that starts inside its medium, a rectangle
ProbedInMedium ==
    /\ probe.op = "probe" /\ probe.medium # Null
    /\ heap[probe.medium].type = "Rectangle"
    /\ RectangleContainsPoint(heap[probe.medium], probe.ray.origin.x,
                              probe.ray.origin.y)

\* C11: for a ray in a medium M, findClosestIntersection returns the nearest
\* hit among the ray's intersection with M's own boundary and its
\* intersections with every other object and target; the tree never reports
\* M itself; when M's boundary is nearest, the result is that exit.
C11_NearestOfExitAndOthers ==
    ProbedInMedium =>
        /\ probe.found.hit = (probe.exit.hit \/ probe.brute.hit)
        /\ (probe.exit.hit /\ probe.brute.hit =>
                probe.found.distance
                    = SetMin({probe.exit.distance, probe.brute.distance}))
        /\ (probe.exit.hit /\ ~probe.brute.hit =>
                probe.found.distance = probe.exit.distance)
        /\ (~probe.exit.hit /\ probe.brute.hit =>
                probe.found.distance = probe.brute.distance)
        /\ (probe.tree.hit => probe.tree.object # probe.medium)
        /\ (probe.exit.hit
            /\ (probe.brute.hit => probe.exit.distance < probe.brute.distance)
                => probe.found.object = probe.medium
                   /\ probe.found.distance = probe.exit.distance)

\* The ids in sceneStore.objects
ObjectIds == {objects[i] : i \in 1..Len(objects)}

\* The positions in sceneStore.objects of the objects that contain point
Containing(point) ==
    {i \in 1..Len(objects) : containsPoint(heap[objects[i]], point.x, point.y)}

\* medium is what the claim asks of findContainingObject(point)
IsTopmostContaining(medium, point) ==
    IF Containing(point) = {} THEN medium = Null
    ELSE \E i \in Containing(point) :
            /\ medium = objects[i]
            /\ \A j \in Containing(point) : j <= i

\* C12: the starting medium of a primary ray, findContainingObject(origin),
\* is the object of highest index in sceneStore.objects that contains the
\* origin, and null exactly when no object contains it; it is never a
\* target or a focal point, so the medium of every ray is null or a member
\* of sceneStore.objects.
C12_MediumIsTopmostObject ==
    pc = "trace" =>
        /\ \A q \in 1..Len(primaries) :
            IsTopmostContaining(primaries[q].medium, primaries[q].startPoint)
        /\ \A q \in 1..Len(primaries) :
            primaries[q].medium \in {Null} \cup ObjectIds
        /\ \A q \in 1..Len(rayQueue) :
            rayQueue[q].medium \in {Null} \cup ObjectIds
        /\ \A i \in SegIds : segs[i].medium \in {Null} \cup ObjectIds

\* The part of C12 about findContainingObject alone
C12_StartingMedium ==
    pc = "trace" =>
        \A q \in 1..Len(primaries) :
            /\ IsTopmostContaining(primaries[q].medium, primaries[q].startPoint)
            /\ primaries[q].medium \in {Null} \cup ObjectIds

-----------------------------------------------------------------------------
(* Repeated traceAll calls on a loaded scene *)

\* The scenes the application starts from: the scene files, one with a
\* focal point and neither objects nor targets, and one whose object lies
\* beyond the right edge of the canvas
RetraceScenes ==
    Scenes \cup {[focalPoints |-> <<"f1">>, targets |-> <<>>, objects |-> <<>>],
                 [focalPoints |-> <<"f1">>, targets |-> <<>>, objects |-> <<"o6">>]}

SceneIds(scene) ==
    {scene.focalPoints[i] : i \in 1..Len(scene.focalPoints)}
    \cup {scene.targets[i] : i \in 1..Len(scene.targets)}
    \cup {scene.objects[i] : i \in 1..Len(scene.objects)}

\* A scene has been loaded and RayRenderer is constructed on it
InitRetrace ==
    /\ \E scene \in RetraceScenes :
        /\ heap = [id \in Ids |-> IF id \in SceneIds(scene) THEN Pool[id] ELSE None]
        /\ objects = scene.objects
        /\ targets = scene.targets
        /\ focalPoints = scene.focalPoints
    /\ selectedObjectId = Null
    /\ maxBounces = 5 /\ minIntensity = IUnit \div 100 /\ showRays = TRUE
    /\ settings = [maxBounces |-> 5, minIntensity |-> IUnit \div 100,
                   airRefractiveIndex |-> NDen, canvasWidth |-> CanvasWidth,
                   canvasHeight |-> CanvasHeight, useBVH |-> TRUE]
    /\ bvh = None /\ bvhDirty = TRUE
    /\ renderPending = TRUE
    /\ pc = "idle" /\ primaries = <<>> /\ rayQueue = <<>> /\ segs = <<>>
    /\ iterations = 0
    /\ edits = 0
    /\ probe = [op |-> "none"]
    /\ rayColor = "#00ff00"
    /\ history = NoCalls

NextRetrace ==
    \/ \E color \in Colors : SetRayColor(color)
    \/ ToggleRays
    \/ \E id \in Ids : InScene(id) /\ RemoveObject(id)
    \/ Render
    \/ BeginRay
    \/ Step
    \/ Finish

SpecRetrace == InitRetrace /\ [][NextRetrace]_vars

\* What the statement compares of a segment forest: the tree shape and
\* each segment's start, end, intensity and hitsTarget
Forest(segments) ==
    [i \in 1..Len(segments) |->
        [parent |-> segments[i].parent, children |-> segments[i].children,
         start |-> segments[i].start, end |-> segments[i].end,
         intensity |-> segments[i].intensity,
         hitsTarget |-> segments[i].hitsTarget]]

\* Two traceAll calls have returned since the scene and the trace settings
\* last changed
Retraced == pc = "idle" /\ history.calls = 2

-----------------------------------------------------------------------------
(* The tree after rebuildBVH *)

\* The shapes held by the leaves below node, leaf after leaf
RECURSIVE LeafObjects(_)
LeafObjects(node) ==
    IF node = None THEN <<>>
    ELSE IF node.isLeaf THEN node.objects
    ELSE LeafObjects(node.left) \o LeafObjects(node.right)

\* How many times id occurs in ids
Count(ids, id) == Cardinality({i \in 1..Len(ids) : ids[i] = id})

\* render() has just entered traceAll, which invoked rebuildBVH
Rebuilt == pc = "trace" /\ probe.op = "render" /\ history.rebuilt

\* C14: after rebuildBVH, bvhDirty is false, bvh is null exactly when the
\* scene has neither objects nor targets, and otherwise every object and
\* every target is held by exactly one leaf of the tree, the leaves hold
\* nothing else, and getStats().objects is |objects| + |targets|; while bvh
\* is null the closest intersection is the one the brute-force loop finds.
C14_RebuildCoversTheScene ==
    /\ Rebuilt =>
        /\ ~bvhDirty
        /\ (bvh = None) = (Len(objects) + Len(targets) = 0)
        /\ (bvh # None =>
                /\ \A id \in Ids :
                    Count(LeafObjects(bvh.root), id) = Count(objects \o targets, id)
                /\ getStats(bvh).objects = Len(objects) + Len(targets))
    /\ (pc = "trace" /\ bvh = None /\ rayQueue # <<>> =>
            findClosestIntersection(settings, bvh, heap, objects, targets,
                                    Head(rayQueue).ray, Head(rayQueue).medium)
            = withIsTarget(heap,
                  closerIntersection(
                      IF Head(rayQueue).medium # Null
                      THEN rayObjectIntersection(Head(rayQueue).ray,
                                                 heap[Head(rayQueue).medium])
                      ELSE noHit,
                      findClosestIntersectionBruteForce(
                          heap, objects, targets, Head(rayQueue).ray,
                          Head(rayQueue).medium))))

C14_Witness ==
    /\ Rebuilt /\ bvh # None
    /\ ~bvh.root.isLeaf
    /\ targets # <<>>

-----------------------------------------------------------------------------
(* The shape of a built tree *)

\* Every leaf below node holds 1..max shapes and has no children; every
\* other node has two children and no shapes
RECURSIVE WellFormed(_, _)
WellFormed(node, max) ==
    IF node.isLeaf
    THEN Len(node.objects) \in 1..max /\ node.left = None /\ node.right = None
    ELSE /\ node.objects = <<>>
         /\ node.left # None /\ node.right # None
         /\ WellFormed(node.left, max)
         /\ WellFormed(node.right, max)

-----------------------------------------------------------------------------
(* Segments once created *)

\* later extends earlier by appended elements
IsPrefix(earlier, later) ==
    /\ Len(earlier) <= Len(later)
    /\ \A k \in 1..Len(earlier) : later[k] = earlier[k]

\* C16: while a trace runs, a segment that exists keeps its start, end,
\* intensity and parent; its children list only grows by appends and its
\* hitsTarget never goes from true back to false.
C16_SegmentsAreWriteOnce ==
    [][pc = "trace" =>
        /\ Len(segs) <= Len(segs')
        /\ \A i \in SegIds :
            /\ segs'[i].start = segs[i].start
            /\ segs'[i].end = segs[i].end
            /\ segs'[i].intensity = segs[i].intensity
            /\ segs'[i].parent = segs[i].parent
            /\ IsPrefix(segs[i].children, segs'[i].children)
            /\ (segs[i].hitsTarget => segs'[i].hitsTarget)]_vars

C16_Witness ==
    /\ pc = "trace"
    /\ \E i \in SegIds :
        /\ Len(segs[i].children) = 2
        /\ segs[i].ends = "object" /\ segs[i].hitsTarget
        /\ \E c \in 1..2 : ~segs[segs[i].children[c]].hitsTarget

-----------------------------------------------------------------------------
(* The scene during traceAll *)

\* C17: from the call of traceAll to its return, the objects, targets and
\* focalPoints lists and every field of every shape and material keep
\* their values.
C17_TraceLeavesSceneUnchanged ==
    [][pc = "trace" \/ pc' = "trace" =>
        /\ objects' = objects /\ targets' = targets
        /\ focalPoints' = focalPoints
        /\ \A id \in Ids : heap'[id] = heap[id]]_vars

C17_Witness ==
    /\ pc = "idle" /\ probe.op = "finish"
    /\ history.calls >= 1 /\ history.returned = segs
    /\ Len(segs) >= 4
    /\ objects # <<>> /\ targets # <<>> /\ focalPoints # <<>>

-----------------------------------------------------------------------------
(* The shape classes: constructors, dimension setters and updateFromJSON *)

\* Triangle.validateSide: a side that is not positive is reported, and
\* returned as given
validateSide(value) == value

\* Triangle.isValidTriangle
isValidTriangle(t) ==
    /\ t.side1 + t.side2 > t.side3
    /\ t.side1 + t.side3 > t.side2
    /\ t.side2 + t.side3 > t.side1

\* new Ellipse({id, x, y, rx, ry, rotation, material})
Ellipse(id, x, y, rx, ry, rotation, material) ==
    [id |-> id, type |-> "Ellipse", position |-> Vec(x, y),
     rotation |-> rotation, material |-> material,
     rx |-> validateDimension(rx), ry |-> validateDimension(ry)]

\* new Square({id, x, y, sideLength, rotation, material})
Square(id, x, y, sideLength, rotation, material) ==
    [Rectangle(id, x, y, sideLength, sideLength, rotation, material)
        EXCEPT !.type = "Square"]

\* new Triangle({id, x, y, side1, side2, side3, rotation, material}): sides
\* that break the triangle inequality are replaced by the average of the
\* sides given
Triangle(id, x, y, side1, side2, side3, rotation, material) ==
    LET t == [id |-> id, type |-> "Triangle", position |-> Vec(x, y),
              rotation |-> rotation, material |-> material,
              side1 |-> validateSide(side1), side2 |-> validateSide(side2),
              side3 |-> validateSide(side3)]
        avg == (side1 + side2 + side3) \div 3
    IN  IF isValidTriangle(t) THEN t
        ELSE [t EXCEPT !.side1 = avg, !.side2 = avg, !.side3 = avg]

\* new EquilateralTriangle({id, x, y, sideLength, rotation, material})
EquilateralTriangle(id, x, y, sideLength, rotation, material) ==
    [Triangle(id, x, y, sideLength, sideLength, sideLength, rotation, material)
        EXCEPT !.type = "EquilateralTriangle"]

\* Square.setSideLength(sideLength).  The value validated is `length`, which
\* is no parameter: hasLength tells whether the global object has a length
\* property (a browser window has one); without it the reference throws
\* and nothing is assigned.  With it, the side is assigned as given.
setSideLength(square, sideLength, hasLength) ==
    IF hasLength THEN [square EXCEPT !.width = sideLength, !.height = sideLength]
    ELSE square

\* Circle.setRadius(radius)
setRadius(circle, radius) ==
    [circle EXCEPT !.rx = validateDimension(radius),
                   !.ry = validateDimension(radius)]

\* EquilateralTriangle.setSideLength(length)
setTriangleSideLength(triangle, length) ==
    [triangle EXCEPT !.side1 = validateSide(length),
                     !.side2 = validateSide(length),
                     !.side3 = validateSide(length)]

\* The dimension properties of each class, as sceneStore.updateObject and
\* the property panels name them
DimensionKeys(type) ==
    CASE type = "Rectangle" -> {"width", "height"}
      [] type = "Square" -> {"sideLength", "width", "height"}
      [] type = "Ellipse" -> {"rx", "ry"}
      [] type = "Circle" -> {"radius", "rx", "ry"}
      [] type = "Triangle" -> {"side1", "side2", "side3"}
      [] type = "EquilateralTriangle" -> {"sideLength", "side1", "side2", "side3"}
      [] type = "Target" -> {"size"}

\* The setter of a dimension: setWidth, setHeight, setSideLength, setRx,
\* setRy, setRadius, setSide1, setSide2, setSide3, setSize of shape's class
setDimension(shape, key, value, hasLength) ==
    CASE shape.type = "Rectangle" /\ key = "width" ->
            [shape EXCEPT !.width = validateDimension(value)]
      [] shape.type = "Rectangle" /\ key = "height" ->
            [shape EXCEPT !.height = validateDimension(value)]
      [] shape.type = "Square" -> setSideLength(shape, value, hasLength)
      [] shape.type = "Ellipse" /\ key = "rx" ->
            [shape EXCEPT !.rx = validateDimension(value)]
      [] shape.type = "Ellipse" /\ key = "ry" ->
            [shape EXCEPT !.ry = validateDimension(value)]
      [] shape.type = "Circle" -> setRadius(shape, value)
      [] shape.type = "Triangle" /\ key = "side1" ->
            [shape EXCEPT !.side1 = validateSide(value)]
      [] shape.type = "Triangle" /\ key = "side2" ->
            [shape EXCEPT !.side2 = validateSide(value)]
      [] shape.type = "Triangle" /\ key = "side3" ->
            [shape EXCEPT !.side3 = validateSide(value)]
      [] shape.type = "EquilateralTriangle" -> setTriangleSideLength(shape, value)
      [] shape.type = "Target" -> [shape EXCEPT !.size = validateDimension(value)]

\* json.key !== undefined
Has(json, key) == key \in DOMAIN json

\* Material.fromJSON(json): new Material(json)
MaterialFromJSON(json) ==
    Material(IF Has(json, "reflectivity") THEN json.reflectivity ELSE 1,
             IF Has(json, "refractiveIndex") THEN json.refractiveIndex ELSE 6)

\* GeometricObject.updateFromJSON(json): a property is taken when it is
\* truthy, so a rotation of 0 is not
baseUpdateFromJSON(shape, json) ==
    [shape EXCEPT
        !.position = IF Has(json, "position") THEN json.position ELSE @,
        !.rotation = IF Has(json, "rotation") /\ json.rotation # Rot0
                     THEN json.rotation ELSE @,
        !.material = IF Has(json, "material") THEN MaterialFromJSON(json.material)
                     ELSE @]

\* Rectangle.updateFromJSON(json)
rectangleUpdateFromJSON(shape, json) ==
    [baseUpdateFromJSON(shape, json) EXCEPT
        !.width = IF Has(json, "width") THEN validateDimension(json.width) ELSE @,
        !.height = IF Has(json, "height") THEN validateDimension(json.height) ELSE @]

\* Ellipse.updateFromJSON(json)
ellipseUpdateFromJSON(shape, json) ==
    [baseUpdateFromJSON(shape, json) EXCEPT
        !.rx = IF Has(json, "rx") THEN validateDimension(json.rx) ELSE @,
        !.ry = IF Has(json, "ry") THEN validateDimension(json.ry) ELSE @]

\* Triangle.updateFromJSON(json)
triangleUpdateFromJSON(shape, json) ==
    [baseUpdateFromJSON(shape, json) EXCEPT
        !.side1 = IF Has(json, "side1") THEN validateSide(json.side1) ELSE @,
        !.side2 = IF Has(json, "side2") THEN validateSide(json.side2) ELSE @,
        !.side3 = IF Has(json, "side3") THEN validateSide(json.side3) ELSE @]

\* Target.updateFromJSON(json)
targetUpdateFromJSON(shape, json) ==
    [baseUpdateFromJSON(shape, json) EXCEPT
        !.size = IF Has(json, "size") THEN validateDimension(json.size) ELSE @]

\* updateFromJSON(json) of shape's class.  Square, Circle and
\* EquilateralTriangle call their own setter, then the method of the class
\* they extend; when Square.setSideLength throws, nothing is updated.
updateFromJSON(shape, json, hasLength) ==
    CASE shape.type = "Rectangle" -> rectangleUpdateFromJSON(shape, json)
      [] shape.type = "Square" ->
            IF ~Has(json, "sideLength") THEN rectangleUpdateFromJSON(shape, json)
            ELSE IF ~hasLength THEN shape
            ELSE rectangleUpdateFromJSON(
                     setSideLength(shape, json.sideLength, hasLength), json)
      [] shape.type = "Ellipse" -> ellipseUpdateFromJSON(shape, json)
      [] shape.type = "Circle" ->
            ellipseUpdateFromJSON(
                IF Has(json, "radius") THEN setRadius(shape, json.radius) ELSE shape,
                json)
      [] shape.type = "Triangle" -> triangleUpdateFromJSON(shape, json)
      [] shape.type = "EquilateralTriangle" ->
            triangleUpdateFromJSON(
                IF Has(json, "sideLength")
                THEN setTriangleSideLength(shape, json.sideLength) ELSE shape,
                json)
      [] shape.type = "Target" -> targetUpdateFromJSON(shape, json)

\* The classes, and the numbers given as dimensions: multiples of 3, so
\* that the average the Triangle constructor takes is a whole number
ShapeTypes ==
    {"Rectangle", "Square", "Ellipse", "Circle", "Triangle",
     "EquilateralTriangle", "Target"}

DimInputs == {0 - 3, 0, 3, 6}

\* new <type>({...}) with the dimensions a, b, c
Construct(type, a, b, c) ==
    CASE type = "Rectangle" -> Rectangle("s1", 0, 0, a, b, Rot0, Glass)
      [] type = "Square" -> Square("s1", 0, 0, a, Rot0, Glass)
      [] type = "Ellipse" -> Ellipse("s1", 0, 0, a, b, Rot0, Glass)
      [] type = "Circle" -> Circle("s1", 0, 0, a, Rot0, Glass)
      [] type = "Triangle" -> Triangle("s1", 0, 0, a, b, c, Rot0, Glass)
      [] type = "EquilateralTriangle" ->
            EquilateralTriangle("s1", 0, 0, a, Rot0, Glass)
      [] type = "Target" -> Target("s1", 0, 0, a, Rot0)

\* A shape has been constructed and added to the scene
InitShapes ==
    /\ \E type \in ShapeTypes, a \in DimInputs, b \in DimInputs, c \in DimInputs :
        /\ heap = [id \in {"s1"} |-> Construct(type, a, b, c)]
        /\ objects = IF type = "Target" THEN <<>> ELSE <<"s1">>
        /\ targets = IF type = "Target" THEN <<"s1">> ELSE <<>>
    /\ focalPoints = <<>>
    /\ selectedObjectId = Null
    /\ maxBounces = 5 /\ minIntensity = IUnit \div 100 /\ showRays = FALSE
    /\ settings = [maxBounces |-> 5, minIntensity |-> IUnit \div 100,
                   airRefractiveIndex |-> NDen, canvasWidth |-> CanvasWidth,
                   canvasHeight |-> CanvasHeight, useBVH |-> TRUE]
    /\ bvh = None /\ bvhDirty = TRUE
    /\ renderPending = FALSE
    /\ pc = "idle" /\ primaries = <<>> /\ rayQueue = <<>> /\ segs = <<>>
    /\ iterations = 0
    /\ edits = 0
    /\ probe = [op |-> "new"]
    /\ rayColor = "#00ff00"
    /\ history = NoCalls

\* The shape's fields become those of changed
ShapeBecomes(changed, op) ==
    /\ heap' = [heap EXCEPT !["s1"] = changed]
    /\ probe' = op
    /\ UNCHANGED <<objects, targets, focalPoints, selectedObjectId, maxBounces,
                   minIntensity, showRays, settings, bvh, bvhDirty,
                   renderPending, pc, primaries, rayQueue, segs, iterations,
                   edits, rayColor, history>>

\* A dimension setter of the shape is called
SetDimension(key, value, hasLength) ==
    /\ key \in DimensionKeys(heap["s1"].type)
    /\ ShapeBecomes(setDimension(heap["s1"], key, value, hasLength),
                    [op |-> "set", key |-> key, value |-> value])

\* shape.updateFromJSON({key: value})
UpdateFromJSON(key, value, hasLength) ==
    /\ key \in DimensionKeys(heap["s1"].type)
    /\ ShapeBecomes(updateFromJSON(heap["s1"], [k \in {key} |-> value], hasLength),
                    [op |-> "updateFromJSON", key |-> key, value |-> value])

AllKeys == UNION {DimensionKeys(type) : type \in ShapeTypes}

MaxPoint == 7               \* the points asked about lie within this of the centre

\* ellipse.containsPoint(x, y), as RayTracer.findContainingObject calls it
ContainsPoint(x, y) ==
    /\ heap["s1"].type \in {"Ellipse", "Circle"}
    /\ probe' = [op |-> "containsPoint", x |-> x, y |-> y,
                 result |-> EllipseContainsPoint(heap["s1"], x, y)]
    /\ UNCHANGED <<heap, objects, targets, focalPoints, selectedObjectId,
                   maxBounces, minIntensity, showRays, settings, bvh, bvhDirty,
                   renderPending, pc, primaries, rayQueue, segs, iterations,
                   edits, rayColor, history>>

NextShapes ==
    \/ \E key \in AllKeys, value \in DimInputs, hasLength \in BOOLEAN :
            SetDimension(key, value, hasLength)
    \/ \E key \in AllKeys, value \in DimInputs, hasLength \in BOOLEAN :
            UpdateFromJSON(key, value, hasLength)
    \/ \E x, y \in (0 - MaxPoint)..MaxPoint : ContainsPoint(x, y)

SpecShapes == InitShapes /\ [][NextShapes]_vars

\* The dimension fields of a shape
Dimensions(shape) ==
    CASE shape.type \in {"Rectangle", "Square"} -> {shape.width, shape.height}
      [] shape.type \in {"Ellipse", "Circle"} -> {shape.rx, shape.ry}
      [] shape.type \in {"Triangle", "EquilateralTriangle"} ->
            {shape.side1, shape.side2, shape.side3}
      [] shape.type = "Target" -> {shape.size}

\* C18: after construction and after any dimension setters and
\* updateFromJSON calls, every dimension field of the shape is strictly
\* positive.
C18_DimensionsStayPositive ==
    \A d \in Dimensions(heap["s1"]) : d > 0

\* The part of C18 that holds: Rectangle, Ellipse, Circle and Target
C18_ValidatedClasses ==
    heap["s1"].type \in {"Rectangle", "Ellipse", "Circle", "Target"} =>
        \A d \in Dimensions(heap["s1"]) : d > 0

-----------------------------------------------------------------------------
(* The Material class of src/models/Material.js, which has an absorptance. *)
(* Reflectivity and absorptance are in halves, the index in quarters.      *)

\* Material.validateAbsorptance: clamped to [0, 1]
validateAbsorptance(value) == Clamp(0, RDen, value)

\* new Material({reflectivity, refractiveIndex, absorptance})
MaterialWithAbsorptance(reflectivity, refractiveIndex, absorptance) ==
    [reflectivity |-> validateReflectivity(reflectivity),
     refractiveIndex |-> validateRefractiveIndex(refractiveIndex),
     absorptance |-> validateAbsorptance(absorptance)]

\* Variant of setAbsorptance: the value is stored as given
setAbsorptanceAsGiven(material, value) ==
    [material EXCEPT !.absorptance = value]

\* Material.setReflectivity(value)
setReflectivity(material, value) ==
    [material EXCEPT !.reflectivity = validateReflectivity(value)]

\* Material.setRefractiveIndex(value)
setRefractiveIndex(material, value) ==
    [material EXCEPT !.refractiveIndex = validateRefractiveIndex(value)]

\* Material.setAbsorptance(value)
setAbsorptance(material, value) ==
    [material EXCEPT !.absorptance = validateAbsorptance(value)]

\* Material.clone(): the fields of the new Material
clone(material) ==
    MaterialWithAbsorptance(material.reflectivity, material.refractiveIndex,
                            material.absorptance)

\* Variant of cloned: clone() returns the material itself
clonedIsThis(id) == id

\* Material.clone(): the object returned is the one `new Material` makes
cloned(id) == "m2"

\* Material.toJSON()
toJSON(material) ==
    [reflectivity |-> material.reflectivity,
     refractiveIndex |-> material.refractiveIndex,
     absorptance |-> material.absorptance]

\* Material.fromJSON(json): new Material(json), a property that is missing
\* takes the constructor's default
fromJSON(json) ==
    MaterialWithAbsorptance(
        IF Has(json, "reflectivity") THEN json.reflectivity ELSE 1,
        IF Has(json, "refractiveIndex") THEN json.refractiveIndex ELSE 6,
        IF Has(json, "absorptance") THEN json.absorptance ELSE 1)

\* The numbers given to the constructor, the setters and fromJSON
MaterialInputs == {0 - 1, 0, 1, 2, 3, 6, 10, 12}

MaterialKeys == {"reflectivity", "refractiveIndex", "absorptance"}

\* The objects given to fromJSON: any of the properties, each with value
MaterialJson(value) ==
    {[k \in keys |-> value] : keys \in SUBSET MaterialKeys}

\* A Material m1 has been constructed; m2 is the object clone() will make
InitMaterial ==
    /\ \E r \in MaterialInputs, n \in MaterialInputs, a \in MaterialInputs :
        heap = [id \in {"m1", "m2"} |->
                   IF id = "m1" THEN MaterialWithAbsorptance(r, n, a) ELSE None]
    /\ objects = <<>> /\ targets = <<>> /\ focalPoints = <<>>
    /\ selectedObjectId = Null
    /\ maxBounces = 5 /\ minIntensity = IUnit \div 100 /\ showRays = FALSE
    /\ settings = [maxBounces |-> 5, minIntensity |-> IUnit \div 100,
                   airRefractiveIndex |-> NDen, canvasWidth |-> CanvasWidth,
                   canvasHeight |-> CanvasHeight, useBVH |-> TRUE]
    /\ bvh = None /\ bvhDirty = TRUE
    /\ renderPending = FALSE
    /\ pc = "idle" /\ primaries = <<>> /\ rayQueue = <<>> /\ segs = <<>>
    /\ iterations = 0
    /\ edits = 0
    /\ probe = [op |-> "new", on |-> "m1", copy |-> Null]
    /\ rayColor = "#00ff00"
    /\ history = NoCalls

\* The material object id takes the fields of changed
MaterialBecomes(id, changed, op, copy) ==
    /\ heap' = [heap EXCEPT ![id] = changed]
    /\ probe' = [op |-> op, on |-> id, copy |-> copy]
    /\ UNCHANGED <<objects, targets, focalPoints, selectedObjectId, maxBounces,
                   minIntensity, showRays, settings, bvh, bvhDirty,
                   renderPending, pc, primaries, rayQueue, segs, iterations,
                   edits, rayColor, history>>

\* The objects the program holds: the original, and the copy once made
Held == {"m1"} \cup ({probe.copy} \ {Null})

SetReflectivity(id, value) ==
    /\ id \in Held
    /\ MaterialBecomes(id, setReflectivity(heap[id], value), "set", probe.copy)

SetRefractiveIndex(id, value) ==
    /\ id \in Held
    /\ MaterialBecomes(id, setRefractiveIndex(heap[id], value), "set", probe.copy)

SetAbsorptance(id, value) ==
    /\ id \in Held
    /\ MaterialBecomes(id, setAbsorptance(heap[id], value), "set", probe.copy)

\* copy = original.clone()
Clone ==
    MaterialBecomes(cloned("m1"), clone(heap["m1"]), "clone", cloned("m1"))

\* original = Material.fromJSON(json)
FromJSON(json) ==
    MaterialBecomes("m1", fromJSON(json), "fromJSON", probe.copy)

NextMaterial ==
    \/ \E id \in {"m1", "m2"}, value \in MaterialInputs : SetReflectivity(id, value)
    \/ \E id \in {"m1", "m2"}, value \in MaterialInputs : SetRefractiveIndex(id, value)
    \/ \E id \in {"m1", "m2"}, value \in MaterialInputs : SetAbsorptance(id, value)
    \/ Clone
    \/ \E value \in MaterialInputs : \E json \in MaterialJson(value) : FromJSON(json)

SpecMaterial == InitMaterial /\ [][NextMaterial]_vars

\* The fields of a material are within their ranges
InRange(material) ==
    /\ material.reflectivity \in 0..RDen
    /\ 2 * material.refractiveIndex \in (2 * NDen)..(5 * NDen)
    /\ material.absorptance \in 0..RDen

-----------------------------------------------------------------------------
(* exportScene and importScene: toJSON and fromJSON of every class *)

\* json.key, or the default the constructor's parameter list gives
jsonOr(json, key, default) == IF Has(json, key) THEN json[key] ELSE default

\* Material.toJSON() of the shapes' material
MaterialToJSON(material) ==
    [reflectivity |-> material.reflectivity,
     refractiveIndex |-> material.refractiveIndex]

\* GeometricObject.toJSON(); the colours are left out of the model
baseToJSON(shape) ==
    [id |-> shape.id, type |-> shape.type, position |-> shape.position,
     rotation |-> shape.rotation, material |-> MaterialToJSON(shape.material)]

\* toJSON() of shape's class
shapeToJSON(shape) ==
    CASE shape.type = "Rectangle" ->
            baseToJSON(shape) @@ [width |-> shape.width, height |-> shape.height]
      [] shape.type = "Square" ->
            baseToJSON(shape) @@ [sideLength |-> shape.width]
      [] shape.type = "Ellipse" ->
            baseToJSON(shape) @@ [rx |-> shape.rx, ry |-> shape.ry]
      [] shape.type = "Circle" ->
            baseToJSON(shape) @@ [radius |-> shape.rx]
      [] shape.type = "Triangle" ->
            baseToJSON(shape) @@ [side1 |-> shape.side1, side2 |-> shape.side2,
                                  side3 |-> shape.side3]
      [] shape.type = "EquilateralTriangle" ->
            baseToJSON(shape) @@ [sideLength |-> shape.side1]
      [] shape.type = "Target" ->
            baseToJSON(shape) @@ [size |-> shape.size]
      [] shape.type = "FocalPoint" ->
            baseToJSON(shape) @@ [rayCount |-> shape.rayCount,
                                  rayLength |-> shape.rayLength,
                                  radius |-> shape.radius]

\* FocalPoint.updateFromJSON(json)
focalPointUpdateFromJSON(shape, json) ==
    [baseUpdateFromJSON(shape, json) EXCEPT
        !.rayCount = IF Has(json, "rayCount") THEN validateRayCount(json.rayCount)
                     ELSE @,
        !.rayLength = IF Has(json, "rayLength")
                      THEN validateRayLength(json.rayLength) ELSE @,
        !.radius = IF Has(json, "radius")
                   THEN (IF json.radius < 1 THEN 1 ELSE json.radius) ELSE @]

\* new <json.type>(json): the constructor reads x and y, which toJSON does
\* not write, and takes json.material as the material
constructFromJSON(json) ==
    CASE json.type = "Rectangle" ->
            Rectangle(json.id, jsonOr(json, "x", 0), jsonOr(json, "y", 0),
                      jsonOr(json, "width", 100), jsonOr(json, "height", 60),
                      jsonOr(json, "rotation", Rot0),
                      jsonOr(json, "material", Material(1, 6)))
      [] json.type = "Square" ->
            Square(json.id, jsonOr(json, "x", 0), jsonOr(json, "y", 0),
                   jsonOr(json, "sideLength", 80),
                   jsonOr(json, "rotation", Rot0),
                   jsonOr(json, "material", Material(1, 6)))
      [] json.type = "Ellipse" ->
            Ellipse(json.id, jsonOr(json, "x", 0), jsonOr(json, "y", 0),
                    jsonOr(json, "rx", 60), jsonOr(json, "ry", 40),
                    jsonOr(json, "rotation", Rot0),
                    jsonOr(json, "material", Material(1, 6)))
      [] json.type = "Circle" ->
            Circle(json.id, jsonOr(json, "x", 0), jsonOr(json, "y", 0),
                   jsonOr(json, "radius", 50),
                   jsonOr(json, "rotation", Rot0),
                   jsonOr(json, "material", Material(1, 6)))
      [] json.type = "Triangle" ->
            Triangle(json.id, jsonOr(json, "x", 0), jsonOr(json, "y", 0),
                     jsonOr(json, "side1", 60), jsonOr(json, "side2", 60),
                     jsonOr(json, "side3", 60),
                     jsonOr(json, "rotation", Rot0),
                     jsonOr(json, "material", Material(1, 6)))
      [] json.type = "EquilateralTriangle" ->
            EquilateralTriangle(json.id, jsonOr(json, "x", 0), jsonOr(json, "y", 0),
                                jsonOr(json, "sideLength", 60),
                                jsonOr(json, "rotation", Rot0),
                                jsonOr(json, "material", Material(1, 6)))
      [] json.type = "Target" ->
            [Target(json.id, jsonOr(json, "x", 0), jsonOr(json, "y", 0),
                    jsonOr(json, "size", 20), jsonOr(json, "rotation", Rot0))
                EXCEPT !.material = jsonOr(json, "material", Material(1, 6))]
      [] json.type = "FocalPoint" ->
            [FocalPoint(json.id, jsonOr(json, "x", 400), jsonOr(json, "y", 300),
                        jsonOr(json, "rayCount", 32),
                        jsonOr(json, "rayLength", 10000),
                        jsonOr(json, "rotation", Rot0),
                        jsonOr(json, "emitFromSurface", FALSE))
                EXCEPT !.material = jsonOr(json, "material", Material(1, 6))]

\* Square.fromJSON(json) throws: its setSideLength reads `length`
fromJSONThrows(json, hasLength) ==
    json.type = "Square" /\ Has(json, "sideLength") /\ ~hasLength

\* <json.type>.fromJSON(json): the object is constructed, then updated from
\* json; Triangle.fromJSON updates the triangle from the triangle itself
shapeFromJSON(json, hasLength) ==
    CASE json.type = "Triangle" ->
            triangleUpdateFromJSON(constructFromJSON(json), constructFromJSON(json))
      [] json.type = "FocalPoint" ->
            focalPointUpdateFromJSON(constructFromJSON(json), json)
      [] OTHER -> updateFromJSON(constructFromJSON(json), json, hasLength)

\* sceneStore.exportScene()
exportScene(h, objs, fps, tgts) ==
    [objects |-> [i \in 1..Len(objs) |-> shapeToJSON(h[objs[i]])],
     focalPoints |-> [i \in 1..Len(fps) |-> shapeToJSON(h[fps[i]])],
     targets |-> [i \in 1..Len(tgts) |-> shapeToJSON(h[tgts[i]])]]

\* How many of json.objects importScene adds: all of them, or those before
\* the first whose fromJSON throws
importedObjects(json, hasLength) ==
    IF \E i \in 1..Len(json.objects) : fromJSONThrows(json.objects[i], hasLength)
    THEN SetMin({i \in 1..Len(json.objects) :
                    fromJSONThrows(json.objects[i], hasLength)}) - 1
    ELSE Len(json.objects)

\* The shapes of every class, away from the origin and turned
RoundTripPool ==
    [re |-> Rectangle("re", 10, 20, 6, 3, Rot90, Mirror),
     sq |-> Square("sq", 12, 8, 6, Rot0, Glass),
     el |-> Ellipse("el", 30, 20, 6, 3, Rot345, Dense),
     ci |-> Circle("ci", 5, 25, 3, Rot0, Clear),
     tr |-> Triangle("tr", 20, 10, 6, 6, 3, Rot90, Glass),
     eq |-> EquilateralTriangle("eq", 15, 30, 6, Rot0, Mirror),
     fp |-> FocalPoint("fp", 6, 18, 4, 1000, Rot0, FALSE),
     tg |-> Target("tg", 38, 18, 3, Rot90)]

RoundTripScenes ==
    { [objects |-> <<"re", "tr">>, focalPoints |-> <<"fp">>, targets |-> <<>>],
      [objects |-> <<"ci", "sq", "eq">>, focalPoints |-> <<>>, targets |-> <<"tg">>],
      [objects |-> <<"el">>, focalPoints |-> <<"fp">>, targets |-> <<"tg">>],
      [objects |-> <<"eq", "ci">>, focalPoints |-> <<"fp">>, targets |-> <<>>] }

\* A scene has been put together
InitRoundTrip ==
    /\ \E scene \in RoundTripScenes :
        /\ objects = scene.objects
        /\ targets = scene.targets
        /\ focalPoints = scene.focalPoints
    /\ heap = RoundTripPool
    /\ selectedObjectId = Null
    /\ maxBounces = 5 /\ minIntensity = IUnit \div 100 /\ showRays = FALSE
    /\ settings = [maxBounces |-> 5, minIntensity |-> IUnit \div 100,
                   airRefractiveIndex |-> NDen, canvasWidth |-> CanvasWidth,
                   canvasHeight |-> CanvasHeight, useBVH |-> TRUE]
    /\ bvh = None /\ bvhDirty = TRUE
    /\ renderPending = FALSE
    /\ pc = "idle" /\ primaries = <<>> /\ rayQueue = <<>> /\ segs = <<>>
    /\ iterations = 0
    /\ edits = 0
    /\ probe = [op |-> "none"]
    /\ rayColor = "#00ff00"
    /\ history = NoCalls

\* What the actions below leave alone
SceneEdited ==
    UNCHANGED <<selectedObjectId, maxBounces, minIntensity, showRays, settings,
                bvh, bvhDirty, renderPending, pc, primaries, rayQueue, segs,
                iterations, edits, rayColor, history>>

\* sceneStore.updateObject(id, {x}), {rotation} or {emitFromSurface}
Move(id, x) ==
    /\ probe.op = "none" /\ InScene(id)
    /\ heap' = [heap EXCEPT ![id].position = Vec(x, @.y)]
    /\ UNCHANGED <<objects, targets, focalPoints, probe>>
    /\ SceneEdited

Turn(id, rotation) ==
    /\ probe.op = "none" /\ InScene(id)
    /\ heap' = [heap EXCEPT ![id].rotation = rotation]
    /\ UNCHANGED <<objects, targets, focalPoints, probe>>
    /\ SceneEdited

SetEmitFromSurface(id, value) ==
    /\ probe.op = "none" /\ InScene(id) /\ heap[id].type = "FocalPoint"
    /\ heap' = [heap EXCEPT ![id].emitFromSurface = value]
    /\ UNCHANGED <<objects, targets, focalPoints, probe>>
    /\ SceneEdited

\* importScene(exportScene()): the scene is cleared, then the focal points,
\* the targets and the objects of the file are made and added
ExportImport(hasLength) ==
    /\ probe.op = "none"
    /\ LET json == exportScene(heap, objects, focalPoints, targets)
           n == importedObjects(json, hasLength)
       IN  /\ focalPoints' = [i \in 1..Len(json.focalPoints) |-> json.focalPoints[i].id]
           /\ targets' = [i \in 1..Len(json.targets) |-> json.targets[i].id]
           /\ objects' = [i \in 1..n |-> json.objects[i].id]
           /\ heap' = [id \in DOMAIN heap |->
                          IF \E i \in 1..Len(json.focalPoints) : json.focalPoints[i].id = id
                          THEN shapeFromJSON(shapeToJSON(heap[id]), hasLength)
                          ELSE IF \E i \in 1..Len(json.targets) : json.targets[i].id = id
                          THEN shapeFromJSON(shapeToJSON(heap[id]), hasLength)
                          ELSE IF \E i \in 1..n : json.objects[i].id = id
                          THEN shapeFromJSON(shapeToJSON(heap[id]), hasLength)
                          ELSE heap[id]]
    /\ probe' = [op |-> "roundTrip", hasLength |-> hasLength,
                 before |-> [heap |-> heap, objects |-> objects,
                             focalPoints |-> focalPoints, targets |-> targets]]
    /\ SceneEdited

NextRoundTrip ==
    \/ \E id \in DOMAIN RoundTripPool, x \in {0, 7} : Move(id, x)
    \/ \E id \in DOMAIN RoundTripPool, rotation \in {Rot0, Rot90} : Turn(id, rotation)
    \/ \E id \in DOMAIN RoundTripPool, value \in BOOLEAN : SetEmitFromSurface(id, value)
    \/ \E hasLength \in BOOLEAN : ExportImport(hasLength)

SpecRoundTrip == InitRoundTrip /\ [][NextRoundTrip]_vars

\* The shapes of the scene, by id
SceneShapes(h, objs, fps, tgts) ==
    [id \in {objs[i] : i \in 1..Len(objs)} \cup {fps[i] : i \in 1..Len(fps)}
            \cup {tgts[i] : i \in 1..Len(tgts)} |-> h[id]]

\* C20: after importScene(exportScene()) the three lists hold shapes with
\* the same ids in the same order, and every shape has the type, position,
\* rotation, dimensions and material values it had; a focal point keeps
\* rayCount, rayLength, radius and emitFromSurface.
C20_ImportRestoresExport ==
    probe.op = "roundTrip" =>
        /\ objects = probe.before.objects
        /\ focalPoints = probe.before.focalPoints
        /\ targets = probe.before.targets
        /\ SceneShapes(heap, objects, focalPoints, targets)
           = SceneShapes(probe.before.heap, probe.before.objects,
                         probe.before.focalPoints, probe.before.targets)

\* The part of C20 that holds where Square.setSideLength does not throw:
\* every shape but a Triangle is restored, and a focal point is but for
\* emitFromSurface
C20_RestoredButTriangles ==
    probe.op = "roundTrip" /\ probe.hasLength =>
        /\ objects = probe.before.objects
        /\ focalPoints = probe.before.focalPoints
        /\ targets = probe.before.targets
        /\ \A id \in DOMAIN SceneShapes(heap, objects, focalPoints, targets) :
            \/ heap[id].type = "Triangle"
            \/ heap[id] = probe.before.heap[id]
            \/ /\ heap[id].type = "FocalPoint"
               /\ heap[id] = [probe.before.heap[id] EXCEPT !.emitFromSurface = FALSE]

-----------------------------------------------------------------------------
(* The pure functions of src/simulation on their own: LightCalculator.reflect, *)
(* LightCalculator.refract and Intersection.closest                         *)

\* The 32 unit directions of the cosine table
UnitDirections == { Vec(CosStep(k), SinStep(k)) : k \in 0..31 }

\* The unit normals along the axes
AxisNormals == { Vec(Unit, 0), Vec(0 - Unit, 0), Vec(0, Unit), Vec(0, 0 - Unit) }

\* Incident vectors with whole coordinates, of any length
MaxIncident == 3
Incidents == { Vec(a * Unit, b * Unit) : a, b \in (0 - MaxIncident)..MaxIncident }

\* Refractive indices as a Material or the air setting holds them
Indices == { validateRefractiveIndex(v) : v \in {0, 4, 5, 6, 8, 10, 12} }

InitLight ==
    /\ heap = Pool /\ objects = <<>> /\ targets = <<>> /\ focalPoints = <<>>
    /\ selectedObjectId = Null
    /\ maxBounces = 5 /\ minIntensity = IUnit \div 100 /\ showRays = TRUE
    /\ settings = [maxBounces |-> 5, minIntensity |-> IUnit \div 100,
                   airRefractiveIndex |-> NDen, canvasWidth |-> CanvasWidth,
                   canvasHeight |-> CanvasHeight, useBVH |-> TRUE]
    /\ bvh = None /\ bvhDirty = TRUE
    /\ renderPending = FALSE
    /\ pc = "idle" /\ primaries = <<>> /\ rayQueue = <<>> /\ segs = <<>>
    /\ iterations = 0
    /\ edits = 0
    /\ probe = [op |-> "none"]
    /\ rayColor = "#00ff00"
    /\ history = NoCalls

\* What a call of LightCalculator leaves alone: everything
LightCalled ==
    UNCHANGED <<heap, objects, targets, focalPoints, selectedObjectId,
                maxBounces, minIntensity, showRays, settings, bvh, bvhDirty,
                renderPending, pc, primaries, rayQueue, segs, iterations,
                edits, rayColor, history>>

\* R = LightCalculator.reflect(incident, normal), then reflect(R, normal)
Reflect(incident, normal) ==
    /\ probe.op = "none"
    /\ probe' = [op |-> "reflect", incident |-> incident, normal |-> normal,
                 result |-> reflect(incident, normal),
                 again |-> reflect(reflect(incident, normal), normal)]
    /\ LightCalled

\* LightCalculator.refract(incident, normal, n1, n2)
Refract(incident, normal, n1, n2) ==
    /\ probe.op = "none"
    /\ probe' = [op |-> "refract", incident |-> incident, normal |-> normal,
                 n1 |-> n1, n2 |-> n2,
                 result |-> refract(incident, normal, n1, n2)]
    /\ LightCalled

\* Intersections as the constructor makes them: hits at equal and at
\* different distances, the no-hit value, and a miss that holds a distance
Intersections ==
    { Intersection(TRUE, 5, Vec(5, 0), Vec(0 - Unit, 0), "a"),
      Intersection(TRUE, 5, Vec(0, 5), Vec(0, 0 - Unit), "b"),
      Intersection(TRUE, 3, Vec(3, 0), Vec(0 - Unit, 0), "c"),
      noHit,
      Intersection(FALSE, 2, None, None, Null) }

MaxList == 3
IntersectionLists == UNION { [1..n -> Intersections] : n \in 0..MaxList }

\* list with element put in before position at
InsertAt(list, at, element) ==
    [i \in 1..(Len(list) + 1) |->
        IF i < at THEN list[i] ELSE IF i = at THEN element ELSE list[i - 1]]

\* Intersection.closest(list), and closest of the list with one more no-hit
Closest(list, at) ==
    /\ probe.op = "none"
    /\ probe' = [op |-> "closest", list |-> list, at |-> at,
                 result |-> closest(list),
                 withNoHit |-> closest(InsertAt(list, at, noHit))]
    /\ LightCalled

NextLight ==
    \/ \E incident \in Incidents \cup UnitDirections, normal \in AxisNormals :
            Reflect(incident, normal)
    \/ \E incident \in UnitDirections, normal \in AxisNormals, n1, n2 \in Indices :
            Refract(incident, normal, n1, n2)
    \/ \E list \in IntersectionLists : \E at \in 1..(Len(list) + 1) :
            Closest(list, at)

SpecLight == InitLight /\ [][NextLight]_vars

\* a . b and the tangential part a x b, for b a unit vector scaled by Unit
Dot(a, b) == (a.x * b.x + a.y * b.y) \div Unit
Cross(a, b) == (a.x * b.y - a.y * b.x) \div Unit

\* C21: refract returns null exactly when n1^2 (1 - (I.N)^2) > n2^2, and a
\* direction otherwise; it never returns null when n1 <= n2; from glass of
\* index 1.5 into air it returns null at the incidence angles above
\* arcsin(1 / 1.5) (45 degrees and more in the table) and a direction at
\* those below (33.75 degrees and less).
C21_NullExactlyBeyondCriticalAngle ==
    probe.op = "refract" =>
        LET dot == Dot(probe.incident, probe.normal)
            tir == probe.n1 * probe.n1 * (Unit * Unit - dot * dot)
                       > probe.n2 * probe.n2 * Unit * Unit
        IN  /\ (probe.result = None) <=> tir
            /\ probe.result # None => DOMAIN probe.result = {"x", "y"}
            /\ probe.n1 <= probe.n2 => probe.result # None
            /\ probe.n1 = 6 /\ probe.n2 = 4 =>
                   ((probe.result = None) <=> Abs(dot) <= CosStep(4))

C21_Witness ==
    /\ probe.op = "refract" /\ probe.n1 = 6 /\ probe.n2 = 4
    /\ probe.result = None
    /\ Abs(Dot(probe.incident, probe.normal)) = CosStep(4)

C21_WitnessBelow ==
    /\ probe.op = "refract" /\ probe.n1 = 6 /\ probe.n2 = 4
    /\ probe.result # None
    /\ Abs(Dot(probe.incident, probe.normal)) = CosStep(3)

\* C22: for an incident vector I with whole coordinates and a unit normal N
\* along an axis, R = reflect(I, N) has R.N = -(I.N), the tangential part
\* and the squared length of I, and reflect(R, N) = I.
C22_ReflectIsAnInvolution ==
    probe.op = "reflect" =>
        /\ Dot(probe.result, probe.normal) = 0 - Dot(probe.incident, probe.normal)
        /\ Cross(probe.result, probe.normal) = Cross(probe.incident, probe.normal)
        /\ probe.result.x * probe.result.x + probe.result.y * probe.result.y
               = probe.incident.x * probe.incident.x
                     + probe.incident.y * probe.incident.y
        /\ probe.again = probe.incident

C22_Witness ==
    /\ probe.op = "reflect"
    /\ Dot(probe.incident, probe.normal) # 0
    /\ Cross(probe.incident, probe.normal) # 0
    /\ probe.result # probe.incident
    /\ probe.again = probe.incident

\* The positions of the hits of a list
HitsOf(list) == { i \in 1..Len(list) : list[i].hit }

\* C23: closest(list) is the no-hit value (hit false, distance +Infinity,
\* point, normal and object null) when the list is empty or holds only
\* misses; otherwise it is the first of the hits of least distance; a
\* no-hit element added anywhere in the list does not change the result.
C23_ClosestIsFirstNearestHit ==
    probe.op = "closest" =>
        /\ HitsOf(probe.list) = {} =>
               probe.result = [hit |-> FALSE, distance |-> Infinity,
                               point |-> None, normal |-> None, object |-> Null]
        /\ HitsOf(probe.list) # {} =>
               \E i \in HitsOf(probe.list) :
                   /\ probe.result = probe.list[i]
                   /\ \A j \in HitsOf(probe.list) :
                          /\ probe.list[i].distance <= probe.list[j].distance
                          /\ probe.list[j].distance = probe.list[i].distance => i <= j
        /\ probe.withNoHit = probe.result

\* A tie of two hits behind a miss, the no-hit element added between them
C23_Witness ==
    /\ probe.op = "closest"
    /\ Len(probe.list) = 3 /\ probe.at = 3
    /\ ~probe.list[1].hit /\ probe.list[2].hit /\ probe.list[3].hit
    /\ probe.list[2].distance = probe.list[3].distance
    /\ probe.list[2] # probe.list[3]
    /\ probe.result = probe.list[2]

-----------------------------------------------------------------------------
(* The candidates of one iteration of traceRay *)

\* The entry just processed made a segment: the last of segs
Emitted == probe.op = "step" /\ pc = "trace" /\ probe.emitted = 1

\* The segment of the entry just processed ends at the nearer of the two
\* candidates
EndsAtNearest(seg, intersection, canvasBoundaryDist) ==
    /\ intersection.hit \/ canvasBoundaryDist # NoDistance
    /\ seg.distance
           = SetMin((IF intersection.hit THEN {intersection.distance} ELSE {})
                    \cup (IF canvasBoundaryDist # NoDistance
                          THEN {canvasBoundaryDist} ELSE {}))
    /\ seg.ends = "canvas" =>
           /\ ~(intersection.hit /\ intersection.distance <= canvasBoundaryDist)
           /\ seg.end = pointAt(probe.entry.ray, canvasBoundaryDist)
           /\ ~seg.hitsTarget
    /\ seg.ends # "canvas" =>
           /\ intersection.hit
           /\ seg.end = intersection.point
           /\ seg.object = intersection.object
           /\ seg.ends = IF heap[intersection.object].type = "Target"
                         THEN "target" ELSE "object"

\* C24: the segment of a processed queue entry ends at the candidate of
\* least distance among the intersection with an object or target (if any)
\* and the crossing of the canvas boundary (if any); the canvas branch is
\* taken only when nothing is hit at a distance <= the boundary distance,
\* and the target or object branch according to the type of the shape hit.
C24_SegmentEndsAtNearestCandidate ==
    Emitted =>
        EndsAtNearest(segs[Len(segs)],
                      findClosestIntersection(settings, bvh, heap, objects, targets,
                                              probe.entry.ray, probe.entry.medium),
                      getCanvasBoundaryDistance(settings, probe.entry.ray))

\* Both candidates are there and the shape is the nearer
C24_Witness ==
    /\ Emitted
    /\ segs[Len(segs)].ends = "object"
    /\ getCanvasBoundaryDistance(settings, probe.entry.ray) # NoDistance
    /\ segs[Len(segs)].distance
           < getCanvasBoundaryDistance(settings, probe.entry.ray)

\* Both candidates are there and the canvas boundary is the nearer
C24_WitnessCanvas ==
    /\ Emitted
    /\ segs[Len(segs)].ends = "canvas"
    /\ findClosestIntersection(settings, bvh, heap, objects, targets,
                               probe.entry.ray, probe.entry.medium).hit

\* A target is the nearer
C24_WitnessTarget ==
    /\ Emitted
    /\ segs[Len(segs)].ends = "target"
    /\ getCanvasBoundaryDistance(settings, probe.entry.ray) # NoDistance

-----------------------------------------------------------------------------
(* The length of the traced paths *)

\* The summed length of the segments from the root of its tree down to
\* segment i
RECURSIVE PathLength(_, _)
PathLength(ss, i) ==
    IF i = 0 THEN 0 ELSE ss[i].distance + PathLength(ss, ss[i].parent)

\* maxDistance of the traceRay call that made segment i: the distance of
\* the first queue entry
RECURSIVE MaxDistanceOf(_, _)
MaxDistanceOf(ss, i) ==
    IF ss[i].parent = 0 THEN ss[i].remaining ELSE MaxDistanceOf(ss, ss[i].parent)

\* C25: along every path from a root of the returned forest the lengths of
\* the segments sum to at most maxDistance, the focal point's rayLength: no
\* segment is longer than the remaining distance of its queue entry.
C25_PathsWithinMaxDistance ==
    \A i \in SegIds :
        /\ segs[i].distance <= segs[i].remaining
        /\ PathLength(segs, i) <= MaxDistanceOf(segs, i)

-----------------------------------------------------------------------------
(* Ellipse.containsPoint against the ellipse equation *)

\* (lx / rx)^2 + (ly / ry)^2 <= 1 for the point (x, y) and an ellipse that
\* is not rotated
InsideEllipse(s, x, y) ==
    (x - s.position.x) * (x - s.position.x) * s.ry * s.ry
        + (y - s.position.y) * (y - s.position.y) * s.rx * s.rx
            <= s.rx * s.rx * s.ry * s.ry

\* C26: for an ellipse with positive rx and ry and rotation 0,
\* containsPoint(x, y) is true exactly when (lx / rx)^2 + (ly / ry)^2 <= 1,
\* (lx, ly) being the point in the ellipse's own frame.
C26_ContainsPointIsTheEllipseEquation ==
    probe.op = "containsPoint" /\ heap["s1"].rx > 0 /\ heap["s1"].ry > 0
                               /\ heap["s1"].rotation = Rot0 =>
        (probe.result <=> InsideEllipse(heap["s1"], probe.x, probe.y))

-----------------------------------------------------------------------------
(* sceneStore: selection and removal *)

\* Target.containsPoint: |x| + |y| <= size / 2 in the diamond's own frame
TargetContainsPoint(s, x, y) ==
    LET local == RotateBack(x - s.position.x, y - s.position.y, s.rotation)
    IN  2 * (Abs(local.x) + Abs(local.y)) <= s.size

\* FocalPoint.containsPoint: within radius of the position
FocalPointContainsPoint(s, x, y) ==
    (x - s.position.x) * (x - s.position.x)
        + (y - s.position.y) * (y - s.position.y) <= s.radius * s.radius

\* sceneStore.findObjectAtPoint: the last target at the point, else the last
\* focal point, else the last object; Null when nothing is there
findObjectAtPoint(h, objs, fps, tgts, x, y) ==
    LET onTargets == {i \in 1..Len(tgts) : TargetContainsPoint(h[tgts[i]], x, y)}
        onFocalPoints == {i \in 1..Len(fps) : FocalPointContainsPoint(h[fps[i]], x, y)}
        onObjects == {i \in 1..Len(objs) : containsPoint(h[objs[i]], x, y)}
    IN  IF onTargets # {} THEN tgts[SetMax(onTargets)]
        ELSE IF onFocalPoints # {} THEN fps[SetMax(onFocalPoints)]
        ELSE IF onObjects # {} THEN objs[SetMax(onObjects)]
        ELSE Null

\* What selecting leaves alone
Selected ==
    UNCHANGED <<heap, objects, targets, focalPoints, maxBounces, minIntensity,
                showRays, settings, bvh, bvhDirty, renderPending, pc, primaries,
                rayQueue, segs, iterations, edits, probe, rayColor, history>>

\* sceneStore.selectObject(id): only an id getObjectById finds is selected
SelectObject(id) ==
    /\ pc = "idle"
    /\ selectedObjectId' = IF InScene(id) THEN id ELSE selectedObjectId
    /\ Selected

\* sceneStore.deselectObject()
DeselectObject ==
    /\ pc = "idle"
    /\ selectedObjectId' = Null
    /\ Selected

\* sceneStore.selectObjectAtPoint(x, y)
SelectObjectAtPoint(x, y) ==
    /\ pc = "idle"
    /\ selectedObjectId' = findObjectAtPoint(heap, objects, focalPoints, targets, x, y)
    /\ Selected

\* sceneStore.removeSelectedObject()
RemoveSelectedObject ==
    /\ selectedObjectId # Null
    /\ RemoveObject(selectedObjectId)

\* sceneStore.removeObject(id), the call and the scene before it recorded
RemoveObjectCalled(id) ==
    /\ pc = "idle" /\ edits < MaxEdits
    /\ Removed(id)
    /\ probe' = [op |-> "removeObject", id |-> id, known |-> InScene(id),
                 before |-> [objects |-> objects, focalPoints |-> focalPoints,
                             targets |-> targets,
                             selectedObjectId |-> selectedObjectId]]
    /\ edits' = edits + 1
    /\ renderPending' = TRUE
    /\ history' = NoCalls
    /\ UNCHANGED <<maxBounces, minIntensity, showRays, settings, bvh, bvhDirty,
                   pc, primaries, rayQueue, segs, iterations, rayColor>>

\* The points the user clicks on
ClickPoints ==
    { Vec(18, 18), Vec(38, 18), Vec(6, 18), Vec(12, 18), Vec(32, 18), Vec(0, 0) }

NextStore ==
    \/ \E id \in Palette, select \in BOOLEAN : AddObject(id, select)
    \/ \E id \in Ids \cup {Unknown} : (InScene(id) \/ id = Unknown) /\ RemoveObjectCalled(id)
    \/ RemoveSelectedObject
    \/ \E id \in Ids \cup {Unknown} : SelectObject(id)
    \/ DeselectObject
    \/ \E point \in ClickPoints : SelectObjectAtPoint(point.x, point.y)
    \/ ClearScene
    \/ \E json \in Scenes : ImportScene(json)

SpecStore == Init /\ [][NextStore]_vars

\* ids without every entry equal to id
Without(ids, id) == SelectSeq(ids, LAMBDA other : other # id)

\* The step takes the entry id out of the scene, and nothing else
OnlyRemoved(id) ==
    /\ objects' = Without(objects, id)
    /\ focalPoints' = Without(focalPoints, id)
    /\ targets' = Without(targets, id)
    /\ Len(objects') + Len(focalPoints') + Len(targets') + 1
           = Len(objects) + Len(focalPoints) + Len(targets)

\* C27: removeObject(id) with an id that matches no focal point, no target
\* and no object leaves objects, focalPoints, targets and selectedObjectId
\* unchanged; with a matching id it removes that one entry and no other.
C27_RemoveObjectRemovesOnlyTheId ==
    [][\A id \in Ids \cup {Unknown} :
         RemoveObjectCalled(id) =>
            IF InScene(id) THEN OnlyRemoved(id)
            ELSE UNCHANGED <<objects, focalPoints, targets, selectedObjectId>>]_vars

\* The part of C27 about an id that is in the scene
C27_KnownIdRemovesOneEntry ==
    [][\A id \in Ids : RemoveObjectCalled(id) /\ InScene(id) => OnlyRemoved(id)]_vars

\* C28: after any sequence of store actions selectedObjectId is null or the
\* id of a shape in objects, focalPoints or targets.
C28_SelectionIsInTheScene ==
    selectedObjectId = Null \/ InScene(selectedObjectId)

-----------------------------------------------------------------------------
(* The candidates of BVH.findBestSplit *)

\* Math.min(n - 1, 10)
NumSplits(n) == IF n - 1 < 10 THEN n - 1 ELSE 10

\* The ids of a sequence, counted
IdBag(ids) == [id \in {ids[i] : i \in 1..Len(ids)} |->
                  Cardinality({i \in 1..Len(ids) : ids[i] = id})]

-----------------------------------------------------------------------------
(* The boxes of a built tree *)

\* outer contains inner
BoxContains(outer, inner) ==
    /\ outer.minX <= inner.minX /\ outer.minY <= inner.minY
    /\ outer.maxX >= inner.maxX /\ outer.maxY >= inner.maxY

\* box is the smallest box that contains the boxes of the shapes ids: it
\* contains each, and each of its sides touches one of them
SmallestBoxOf(box, h, ids) ==
    /\ \A i \in 1..Len(ids) : BoxContains(box, getBoundingBox(h[ids[i]]))
    /\ \E i \in 1..Len(ids) : box.minX = getBoundingBox(h[ids[i]]).minX
    /\ \E i \in 1..Len(ids) : box.minY = getBoundingBox(h[ids[i]]).minY
    /\ \E i \in 1..Len(ids) : box.maxX = getBoundingBox(h[ids[i]]).maxX
    /\ \E i \in 1..Len(ids) : box.maxY = getBoundingBox(h[ids[i]]).maxY

\* Every node below node has the smallest box of the shapes of its subtree,
\* and a box that contains the boxes of its children
RECURSIVE TightBoxes(_, _)
TightBoxes(h, node) ==
    /\ SmallestBoxOf(node.boundingBox, h, LeafObjects(node))
    /\ ~node.isLeaf =>
           /\ BoxContains(node.boundingBox, node.left.boundingBox)
           /\ BoxContains(node.boundingBox, node.right.boundingBox)
           /\ TightBoxes(h, node.left)
           /\ TightBoxes(h, node.right)

\* C30: in a tree BVH.build produces, every node's boundingBox is the
\* smallest axis-aligned box containing getBoundingBox() of every shape of
\* its subtree, so a parent's box contains its children's and the root's
\* contains every shape's; the tree is a proper binary tree with
\* nodes = 2 leaves - 1.
C30_BoxesAreTight ==
    probe.op = "build" /\ probe.built.root # None =>
        /\ TightBoxes(heap, probe.built.root)
        /\ \A i \in 1..Len(objects \o targets) :
               BoxContains(probe.built.root.boundingBox,
                           getBoundingBox(heap[(objects \o targets)[i]]))
        /\ getStats(probe.built).nodes = 2 * getStats(probe.built).leaves - 1
        /\ getStats(probe.built).objects = Len(objects) + Len(targets)

\* A tree of several levels whose root box is larger than either child's
C30_Witness ==
    /\ probe.op = "build" /\ probe.built.root # None
    /\ ~probe.built.root.isLeaf
    /\ ~probe.built.root.left.isLeaf \/ ~probe.built.root.right.isLeaf
    /\ probe.built.root.boundingBox # probe.built.root.left.boundingBox
    /\ probe.built.root.boundingBox # probe.built.root.right.boundingBox
    /\ getStats(probe.built).nodes >= 7

====
